---- MODULE Spec2Model ----
(***************************************************************************)
(* Model of the context router (src/src/llm/routing.py) and of the         *)
(* importance scorer (src/src/models/nlu_model.py) of chatbot-core-llm.    *)
(*                                                                         *)
(* Strings the code splits, strips or searches are sequences: the intent   *)
(* catalog is a sequence of tokens (a name, ":", ",", " ", a weight), a    *)
(* message is a sequence of Unicode code points.  Scores and confidences   *)
(* are integers: a confidence is in percent, a score in thousandths        *)
(* (0.63 is 630), which is exact for every value the scorer computes on    *)
(* the inputs drawn here.                                                  *)
(***************************************************************************)
EXTENDS Integers, Sequences, FiniteSets, TLC

VARIABLES
    config_manager,  \* what config_manager.get_config() does: raise, or the config it returns
    router,          \* the ContextRouter object: "absent", "constructed", "raised"
    router_config,   \* ContextRouter.config, set by __init__
    nlu_result,      \* the NLUResult (or None) handed to the operation
    contexts,        \* the Dict[str, bool] returned by determine_required_contexts
    total_tokens,    \* the int returned by estimate_token_usage
    score,           \* the float returned by NLUResult.importance_score, in thousandths
    threshold,       \* config.nlu.importance_threshold, in thousandths
    lm,              \* the analyses held by the long-term memory store
    response,        \* the text returned by NLUProcessor.process_message
    generation,      \* generate_response in this turn: "not_called", "returned", "raised"
    saved,           \* what the persistence operation returned: "none", "true", "false", "raised"
    memory_config,   \* config.memory: extend_ttl_on_activity
    redis,           \* the key sm:<user_id> in Redis: its JSON value and its TTL
    procs,           \* the operations running on the session, each with its locals
    lm_context,      \* the long-term memory process_message loaded for the response
    context_messages,  \* the conversation_context given to analyze_message_nlu
    context_selection, \* the context_selection given to generate_response
    steps,           \* the calls the workflow has made in this turn, in order
    conversation,    \* the messages of the Conversation process_user_message returned
    raw_output,      \* the raw LLM output handed to a parser
    result,          \* the dict returned by the parser
    pc               \* position of the caller

\* the variables of the router and of its caller
router_vars == <<config_manager, router, router_config, contexts, total_tokens>>
\* the variables of a conversation turn
\* the variables of the session store and of the workflow of a turn
session_vars == <<memory_config, redis, procs>>
workflow_vars == <<lm_context, context_messages, context_selection, steps, conversation>>
turn_vars == <<threshold, lm, response, generation, saved, session_vars, workflow_vars>>
\* the variables of a parse
parser_vars == <<raw_output, result>>

vars == <<router_vars, nlu_result, score, turn_vars, parser_vars, pc>>

----------------------------------------------------------------------------
(* Bounds *)

MaxIntents == 2
MaxEntities == 2

----------------------------------------------------------------------------
(* Small sequence helpers (Python str/list primitives) *)

\* the set of all sequences over S of length 0..n
SeqsUpTo(S, n) == UNION { [1..k -> S] : k \in 0..n }

\* s[a..b], empty when a > b
Slice(s, a, b) == [i \in 1..(IF b >= a THEN b - a + 1 ELSE 0) |-> s[a + i - 1]] \o <<>>

\* index of the first element of s equal to c, 0 when there is none
FirstIndex(s, c, i) ==
    IF \E k \in i..Len(s) : s[k] = c
        THEN CHOOSE k \in i..Len(s) : s[k] = c /\ \A j \in i..(k - 1) : s[j] /= c
        ELSE 0

\* str.split(sep) for a one-token separator: always at least one piece
RECURSIVE Split(_, _)
Split(s, sep) ==
    LET i == FirstIndex(s, sep, 1) IN
        IF i = 0 THEN <<s>>
        ELSE <<Slice(s, 1, i - 1)>> \o Split(Slice(s, i + 1, Len(s)), sep)

\* str.strip(): drop leading and trailing whitespace
RECURSIVE LStrip(_, _)
LStrip(s, ws) ==
    IF s /= <<>> /\ Head(s) \in ws THEN LStrip(Tail(s), ws) ELSE s

RECURSIVE RStrip(_, _)
RStrip(s, ws) ==
    IF s /= <<>> /\ s[Len(s)] \in ws THEN RStrip(Slice(s, 1, Len(s) - 1), ws) ELSE s

Strip(s, ws) == RStrip(LStrip(s, ws), ws)

\* the concatenation of the sequences of a sequence, sep between them (sep.join)
RECURSIVE Join(_, _)
Join(parts, sep) ==
    IF parts = <<>> THEN <<>>
    ELSE IF Len(parts) = 1 THEN parts[1]
    ELSE parts[1] \o sep \o Join(Tail(parts), sep)

\* the elements of a sequence
Range(s) == { s[i] : i \in DOMAIN s }

----------------------------------------------------------------------------
(* Documents (NLUResult) of the router *)

RoutedIntents == {"greet", "purchase_intent", "support_intent", "complain_intent", "inquiry_intent"}

\* intent names a document may carry: the routed ones and one the router does not know
IntentNames == RoutedIntents \cup {"unknown_intent"}

\* confidences in percent
RouterConfidences == {70, 90}

NLUIntent == [name : IntentNames, confidence : RouterConfidences]

\* None: present is FALSE.  sentiment is the label, "none" for a None sentiment
NoneResult == [present |-> FALSE, content |-> <<>>, intents |-> <<>>, entities |-> <<>>,
               sentiment |-> "none"]

RouterDocs ==
    { [present |-> TRUE, content |-> <<>>, intents |-> is, entities |-> <<>>, sentiment |-> "none"] :
          is \in SeqsUpTo(NLUIntent, MaxIntents) }
    \cup {NoneResult}

----------------------------------------------------------------------------
(* The default-intent catalog string of the configuration *)

Whitespace == {" "}

\* the order in which a catalog lists its names
CatalogOrder == <<"greet", "purchase_intent", "support_intent", "complain_intent", "inquiry_intent">>

\* one item of a catalog, in each of the ways a catalog is written
Item(n, style) ==
    CASE style = "weighted"    -> <<n, ":", "0.5">>                 \* "greet:0.5"
      [] style = "bare"        -> <<n>>                             \* "greet"
      [] style = "spaced"      -> <<" ", n, " ", ":", " ", "0.5">>  \* " greet : 0.5"
      [] style = "doublecolon" -> <<n, ":", ":", "0.5">>            \* "greet::0.5"
      [] style = "equals"      -> <<n, "=", "0.5">>                 \* "greet=0.5": no colon, the name is "greet=0.5"

CatalogStyles == {"weighted", "bare", "spaced", "doublecolon", "equals"}

\* items are separated by ", " in the weighted style, by "," in the others
Catalog(S, style) ==
    LET names == SelectSeq(CatalogOrder, LAMBDA n : n \in S)
        items == [i \in DOMAIN names |-> Item(names[i], style)]
    IN  Join(items, IF style = "weighted" THEN <<",", " ">> ELSE <<",">>)

\* a configuration object: nlu.default_intent is a string (is_str) or something
\* str methods fail on (None, a missing nlu section)
Configs ==
    { [is_str |-> TRUE, default_intent |-> Catalog(S, style)] :
          S \in SUBSET RoutedIntents, style \in CatalogStyles }
    \cup { [is_str |-> FALSE, default_intent |-> <<>>] }

NoConfig == [is_str |-> FALSE, default_intent |-> <<>>]

\* config_manager.get_config(): returns the configuration or raises
ConfigManagers ==
    { [readable |-> TRUE, config |-> c] : c \in Configs }
    \cup { [readable |-> FALSE, config |-> NoConfig] }

----------------------------------------------------------------------------
(* ContextRouter *)

\* _parse_default_intents: "greet:0.3, purchase_intent:0.8" -> {"greet", "purchase_intent"};
\* any exception gives the empty set.  A name is the token sequence left of the first ":".
_parse_default_intents(config) ==
    IF ~config.is_str THEN {}
    ELSE LET items == Split(config.default_intent, ",")
         IN  { Strip(Split(Strip(items[i], Whitespace), ":")[1], Whitespace) : i \in DOMAIN items }

\* a name is in the parsed set when the parsed token sequence is exactly that name
InDefault(n, default_intents) == <<n>> \in default_intents

FlagNames == {"core_behavior", "interaction_guidelines", "product_details",
              "business_policies", "user_history"}

_get_minimal_contexts ==
    [core_behavior |-> TRUE, interaction_guidelines |-> TRUE, user_history |-> TRUE,
     product_details |-> FALSE, business_policies |-> FALSE]

_get_product_focused_contexts ==
    [core_behavior |-> TRUE, interaction_guidelines |-> TRUE, product_details |-> TRUE,
     business_policies |-> TRUE, user_history |-> FALSE]

\* variant: a preset that leaves a flag out
_get_support_focused_contexts_partial ==
    [core_behavior |-> TRUE, interaction_guidelines |-> TRUE, business_policies |-> TRUE,
     user_history |-> TRUE]

_get_support_focused_contexts ==
    [core_behavior |-> TRUE, interaction_guidelines |-> TRUE, business_policies |-> TRUE,
     user_history |-> TRUE, product_details |-> FALSE]

_get_full_contexts ==
    [core_behavior |-> TRUE, interaction_guidelines |-> TRUE, user_history |-> TRUE,
     product_details |-> TRUE, business_policies |-> TRUE]

\* the intent names of a document
intent_names(doc) == { doc.intents[i].name : i \in DOMAIN doc.intents }

\* variants of determine_required_contexts with one rule changed
determine_required_contexts_purchase_first(doc, config) ==
    IF ~doc.present \/ doc.intents = <<>> THEN _get_full_contexts
    ELSE LET names == intent_names(doc)
             default_intents == _parse_default_intents(config)
         IN  IF "purchase_intent" \in names /\ InDefault("purchase_intent", default_intents)
                 THEN _get_product_focused_contexts
             ELSE IF "greet" \in names /\ InDefault("greet", default_intents)
                 THEN _get_minimal_contexts
             ELSE IF ("support_intent" \in names \/ "complain_intent" \in names)
                     /\ \E n \in {"support_intent", "complain_intent"} : InDefault(n, default_intents)
                 THEN _get_support_focused_contexts
             ELSE _get_full_contexts

determine_required_contexts_minimal_default(doc, config) ==
    IF ~doc.present \/ doc.intents = <<>> THEN _get_minimal_contexts
    ELSE LET names == intent_names(doc)
             default_intents == _parse_default_intents(config)
         IN  IF "greet" \in names /\ InDefault("greet", default_intents)
                 THEN _get_minimal_contexts
             ELSE IF "purchase_intent" \in names /\ InDefault("purchase_intent", default_intents)
                 THEN _get_product_focused_contexts
             ELSE IF ("support_intent" \in names \/ "complain_intent" \in names)
                     /\ \E n \in {"support_intent", "complain_intent"} : InDefault(n, default_intents)
                 THEN _get_support_focused_contexts
             ELSE _get_full_contexts

determine_required_contexts_no_catalog(doc, config) ==
    IF ~doc.present \/ doc.intents = <<>> THEN _get_full_contexts
    ELSE LET names == intent_names(doc)
         IN  IF "greet" \in names THEN _get_minimal_contexts
             ELSE IF "purchase_intent" \in names THEN _get_product_focused_contexts
             ELSE IF "support_intent" \in names \/ "complain_intent" \in names
                 THEN _get_support_focused_contexts
             ELSE _get_full_contexts

determine_required_contexts_same_name(doc, config) ==
    IF ~doc.present \/ doc.intents = <<>> THEN _get_full_contexts
    ELSE LET names == intent_names(doc)
             default_intents == _parse_default_intents(config)
         IN  IF "greet" \in names /\ InDefault("greet", default_intents)
                 THEN _get_minimal_contexts
             ELSE IF "purchase_intent" \in names /\ InDefault("purchase_intent", default_intents)
                 THEN _get_product_focused_contexts
             ELSE IF \E n \in {"support_intent", "complain_intent"} :
                         n \in names /\ InDefault(n, default_intents)
                 THEN _get_support_focused_contexts
             ELSE _get_full_contexts

determine_required_contexts(doc, config) ==
    IF ~doc.present \/ doc.intents = <<>> THEN _get_full_contexts
    ELSE LET names == intent_names(doc)
             default_intents == _parse_default_intents(config)
         IN  IF "greet" \in names /\ InDefault("greet", default_intents)
                 THEN _get_minimal_contexts
             ELSE IF "purchase_intent" \in names /\ InDefault("purchase_intent", default_intents)
                 THEN _get_product_focused_contexts
             ELSE IF ("support_intent" \in names \/ "complain_intent" \in names)
                     /\ \E n \in {"support_intent", "complain_intent"} : InDefault(n, default_intents)
                 THEN _get_support_focused_contexts
             ELSE IF "inquiry_intent" \in names /\ InDefault("inquiry_intent", default_intents)
                 THEN _get_full_contexts
             ELSE _get_full_contexts

\* token_estimates.get(context_type, 0)
token_estimates(context_type) ==
    CASE context_type = "core_behavior"          -> 100
      [] context_type = "interaction_guidelines" -> 150
      [] context_type = "product_details"        -> 800
      [] context_type = "business_policies"      -> 200
      [] context_type = "user_history"           -> 300
      [] OTHER                                   -> 0

RECURSIVE SumOver(_, _)
SumOver(S, f) ==
    IF S = {} THEN 0
    ELSE LET k == CHOOSE k \in S : TRUE IN f[k] + SumOver(S \ {k}, f)

\* variant: every listed context is counted, enabled or not
estimate_token_usage_all_keys(cs) ==
    SumOver(DOMAIN cs, [k \in DOMAIN cs |-> token_estimates(k)])

\* estimate_token_usage: the costs of the enabled contexts
estimate_token_usage(cs) ==
    LET enabled == { k \in DOMAIN cs : cs[k] }
    IN  SumOver(enabled, [k \in enabled |-> token_estimates(k)])

----------------------------------------------------------------------------
(* Router specification: construct the router, route one document, estimate *)

NoContexts == [k \in {} |-> TRUE]

\* no turn is being processed
\* no session is stored and no operation runs on it
SessionIdle ==
    /\ memory_config = [extend_ttl_on_activity |-> TRUE]
    /\ redis = [present |-> FALSE, data |-> <<>>, ttl |-> -2]
    /\ procs = <<>>

\* the workflow has called nothing
WorkflowIdle ==
    /\ lm_context = <<>>
    /\ context_messages = <<>>
    /\ context_selection = "not_given"
    /\ steps = <<>>
    /\ conversation = <<>>

TurnIdle ==
    /\ SessionIdle
    /\ WorkflowIdle
    /\ threshold = 0
    /\ lm = <<>>
    /\ response = "none"
    /\ generation = "not_called"
    /\ saved = "none"

\* no parse has been asked for
ParserIdle ==
    /\ raw_output = <<>>
    /\ result = [status |-> "none"]

RouterInit ==
    /\ config_manager \in ConfigManagers
    /\ nlu_result \in RouterDocs
    /\ router = "absent"
    /\ router_config = NoConfig
    /\ contexts = NoContexts
    /\ total_tokens = 0
    /\ score = 0
    /\ TurnIdle
    /\ ParserIdle
    /\ pc = "start"

\* ContextRouter.__init__: self.config = config_manager.get_config(); an exception
\* of get_config is not caught
Construct ==
    /\ pc = "start"
    /\ IF config_manager.readable
           THEN /\ router' = "constructed"
                /\ router_config' = config_manager.config
                /\ pc' = "constructed"
           ELSE /\ router' = "raised"
                /\ router_config' = router_config
                /\ pc' = "raised"
    /\ UNCHANGED <<config_manager, nlu_result, contexts, total_tokens, score>>
    /\ UNCHANGED <<turn_vars, parser_vars>>

\* contexts = router.determine_required_contexts(nlu_result)
Determine ==
    /\ pc = "constructed"
    /\ contexts' = determine_required_contexts(nlu_result, router_config)
    /\ pc' = "routed"
    /\ UNCHANGED <<config_manager, router, router_config, nlu_result, total_tokens, score>>
    /\ UNCHANGED <<turn_vars, parser_vars>>

\* tokens = router.estimate_token_usage(contexts)
Estimate ==
    /\ pc \in {"routed", "given"}
    /\ total_tokens' = estimate_token_usage(contexts)
    /\ pc' = "estimated"
    /\ UNCHANGED <<config_manager, router, router_config, nlu_result, contexts, score>>
    /\ UNCHANGED <<turn_vars, parser_vars>>

RouterNext == Construct \/ Determine \/ Estimate

RouterSpec == RouterInit /\ [][RouterNext]_vars

----------------------------------------------------------------------------
(* Estimation specification: estimate_token_usage applied to any flag map *)

ContextKeys == FlagNames \cup {"unknown_context", "another_unknown"}

\* every Dict[str, bool] over the known and two unknown context types
FlagMaps == UNION { [D -> BOOLEAN] : D \in SUBSET ContextKeys }

EstimateInit ==
    /\ config_manager \in { m \in ConfigManagers :
                               m.readable /\ m.config = [is_str |-> TRUE, default_intent |-> <<>>] }
    /\ router = "constructed"
    /\ router_config = config_manager.config
    /\ nlu_result = NoneResult
    /\ contexts \in FlagMaps
    /\ total_tokens = 0
    /\ score = 0
    /\ TurnIdle
    /\ ParserIdle
    /\ pc = "given"

EstimateNext == Estimate

EstimateSpec == EstimateInit /\ [][EstimateNext]_vars

----------------------------------------------------------------------------
(* NLUResult.importance_score *)

\* messages, as sequences of code points
Msg_Sawasdee_Krub == <<3626, 3623, 3633, 3626, 3604, 3637, 3588, 3619, 3633, 3610>>
Msg_Sawasdee == <<3626, 3623, 3633, 3626, 3604, 3637>>
Msg_Budget_Gaming ==
    <<3591, 3610, 32, 52, 48, 48, 48, 48, 32, 3648, 3629, 3634, 3652, 3623, 3657, 3648,
      3621, 3656, 3609, 3648, 3585, 3617, 3588, 3619, 3633, 3610>>
Msg_Budget_Baht ==
    <<3591, 3610, 32, 52, 48, 48, 48, 48, 32, 3610, 3634, 3607, 32, 3629, 3618, 3634,
      3585, 3652, 3604, 3657, 3588, 3629, 3617, 3588, 3619, 3633, 3610>>
\* the greeting between blanks, the greeting followed by "!", a budget for a "PC"
Msg_Padded == <<32, 32>> \o Msg_Sawasdee_Krub \o <<32>>
Msg_Exclaimed == Msg_Sawasdee_Krub \o <<33>>
Msg_Budget_PC == <<3591, 3610, 32, 80, 67>>

Contents == {Msg_Sawasdee_Krub, Msg_Sawasdee, Msg_Budget_Gaming, Msg_Budget_Baht,
             Msg_Padded, Msg_Exclaimed, Msg_Budget_PC}

\* entity values: "pc", "Mac", and the Thai word for computer of Msg_Budget_Baht
EntityValues == {<<112, 99>>, <<77, 97, 99>>, <<3588, 3629, 3617>>}

NLUEntity == [value : EntityValues]

\* intents of the scored documents: below the 0.2 baseline, 0.56, 0.63, 0.7
ScoreIntent ==
    { [name |-> "greet", confidence |-> 20], [name |-> "greet", confidence |-> 90],
      [name |-> "purchase_intent", confidence |-> 80],
      [name |-> "purchase_intent", confidence |-> 100] }

SentimentLabels == {"none", "positive", "negative", "neutral"}

ScoreDocs ==
    [present : {TRUE}, content : Contents, intents : SeqsUpTo(ScoreIntent, MaxIntents),
     entities : SeqsUpTo(NLUEntity, MaxEntities), sentiment : SentimentLabels]

Min(a, b) == IF a <= b THEN a ELSE b
Max(a, b) == IF a >= b THEN a ELSE b

\* str.lower() on the code points of the messages: A-Z to a-z
lower(s) == [i \in DOMAIN s |-> IF s[i] \in 65..90 THEN s[i] + 32 ELSE s[i]]

\* w in s (substring)
IsSubstring(w, s) ==
    \E i \in 1..(Len(s) - Len(w) + 1) : \A k \in 1..Len(w) : s[i + k - 1] = w[k]

\* whitespace code points removed by str.strip()
StrWhitespace == {9, 10, 13, 32}

business_keywords ==
    << <<3595, 3639, 3657, 3629>>,
       <<3648, 3607, 3656, 3634, 3652, 3627, 3619, 3656>>,
       <<3619, 3634, 3588, 3634>>,
       <<3626, 3633, 3656, 3591>>,
       <<3592, 3629, 3591>>,
       <<3652, 3604, 3657, 3652, 3627, 3617>>,
       <<3629, 3618, 3634, 3585>>,
       <<3617, 3637, 3652, 3627, 3617>>,
       <<3649, 3609, 3632, 3609, 3635>>,
       <<3648, 3629, 3634>>,
       <<3591, 3610>>,
       <<3610, 3634, 3607>> >>

\* max(self.intents, key=lambda x: x.confidence).confidence
RECURSIVE top_confidence(_)
top_confidence(intents) ==
    IF Len(intents) = 1 THEN intents[1].confidence
    ELSE Max(intents[1].confidence, top_confidence(Tail(intents)))

\* variant: the last intent of the list counts, not the most confident one
intent_score_last(doc) ==
    IF doc.intents /= <<>> THEN Max(200, doc.intents[Len(doc.intents)].confidence * 7) ELSE 200

\* score after the intent floor: 0.2, raised to 70% of the top confidence
intent_score(doc) ==
    IF doc.intents /= <<>> THEN Max(200, top_confidence(doc.intents) * 7) ELSE 200

\* sum(1 for word in business_keywords if word in self.content.lower())
\* (the count is the same for every analysis of a message: it is kept per message)
MatchingKeywords ==
    [content \in Contents |->
        Cardinality({ i \in DOMAIN business_keywords :
                          IsSubstring(business_keywords[i], lower(content)) })]
keyword_matches(doc) == MatchingKeywords[doc.content]

\* variant: one flat 0.15, however many keywords match
keyword_boost_flat(doc) ==
    IF keyword_matches(doc) > 0 THEN 150 ELSE 0

\* if keyword_matches > 0: score += min(keyword_matches * 0.15, 0.3)
keyword_boost(doc) ==
    LET Boost(matches) == IF matches > 0 THEN Min(matches * 150, 300) ELSE 0
    IN  Boost(keyword_matches(doc))

\* variant: every entity counts
valid_entities_unchecked(doc) == doc.entities

\* [e for e in self.entities if e.value.lower() in self.content.lower()]
valid_entities(doc) ==
    LET Valid(content) == SelectSeq(doc.entities, LAMBDA e : IsSubstring(lower(e.value), content))
    IN  Valid(lower(doc.content) \o <<>>)

entity_boost(doc) ==
    LET Boost(valid) == IF valid /= <<>> THEN Min(Len(valid) * 100, 200) ELSE 0
    IN  IF doc.entities /= <<>> THEN Boost(valid_entities(doc)) ELSE 0

sentiment_boost(doc) ==
    IF doc.sentiment \in {"positive", "negative"} THEN 100 ELSE 0

\* variant: only messages shorter than 10 characters are boosted
length_boost_below_ten(doc, sc) ==
    IF Len(Strip(doc.content, StrWhitespace)) < 10 /\ sc >= 600 THEN 100 ELSE 0

\* message_length <= 10 and score >= 0.6: + 0.1
length_boost(doc, sc) ==
    IF Len(Strip(doc.content, StrWhitespace)) <= 10 /\ sc >= 600 THEN 100 ELSE 0

\* variant: the sum is returned as it is
clamp01_absent(sc) == sc

\* max(0.0, min(1.0, score))
clamp01(sc) == Max(0, Min(1000, sc))

\* variant: the short-message boost is decided on the intent term alone
importance_score_length_first(doc) ==
    clamp01(intent_score(doc) + length_boost(doc, intent_score(doc)) + keyword_boost(doc)
            + entity_boost(doc) + sentiment_boost(doc))

importance_score(doc) ==
    LET sc == intent_score(doc) + keyword_boost(doc) + entity_boost(doc) + sentiment_boost(doc)
    IN  clamp01(sc + length_boost(doc, sc))

----------------------------------------------------------------------------
(* Scoring specification: importance_score read on any analysed document *)

ScoreInit ==
    /\ config_manager \in { m \in ConfigManagers :
                               m.readable /\ m.config = [is_str |-> TRUE, default_intent |-> <<>>] }
    /\ router = "absent"
    /\ router_config = NoConfig
    /\ nlu_result \in ScoreDocs
    /\ contexts = NoContexts
    /\ total_tokens = 0
    /\ score = 0
    /\ TurnIdle
    /\ ParserIdle
    /\ pc = "analysed"

\* nlu_result.importance_score
Score ==
    /\ pc = "analysed"
    /\ score' = importance_score(nlu_result)
    /\ pc' = "scored"
    /\ UNCHANGED <<config_manager, router, router_config, nlu_result, contexts, total_tokens>>
    /\ UNCHANGED <<turn_vars, parser_vars>>

ScoreNext == Score

ScoreSpec == ScoreInit /\ [][ScoreNext]_vars

----------------------------------------------------------------------------
(* A conversation turn: should_save_to_longterm, save_important_nlu_analysis,  *)
(* NLUProcessor.process_message                                                *)

\* thresholds in thousandths: the configured 0.35, the default 0.7, and two values
\* that are scores of documents drawn below
Thresholds == {350, 700, 730, 860}

\* the analyses a turn can have: what analyze_message_nlu returned
TurnContents == {Msg_Sawasdee_Krub, Msg_Sawasdee, Msg_Budget_Gaming}
TurnDocs ==
    [present : {TRUE}, content : TurnContents, intents : SeqsUpTo(ScoreIntent, MaxIntents),
     entities : {<<>>}, sentiment : {"none", "positive"}]

\* a configuration that can be read and one that cannot
TurnConfigManagers ==
    { m \in ConfigManagers :
          m.config \in {NoConfig, [is_str |-> TRUE, default_intent |-> <<>>]} }

\* the methods class LongTermMemoryStore defines; long_term_memory is its instance
LongTermMemoryStore ==
    {"__init__", "_get_file_path", "exists", "save", "load", "add_event",
     "create_from_conversation", "delete"}

\* self.lm.add_nlu_analysis(user_id, nlu_result): an attribute the object does not
\* have raises AttributeError
add_nlu_analysis_raises == "add_nlu_analysis" \notin LongTermMemoryStore

\* the fallback text of process_message and the text generate_response returns
Apology == "apology"
Generated == "generated"

\* should_save_to_longterm(nlu_result): the threshold is read from the configuration;
\* any exception gives False
should_save_to_longterm(doc, cm, th) ==
    IF cm.readable THEN importance_score(doc) >= th ELSE FALSE

\* MemoryManager.save_important_nlu_analysis(user_id, nlu_result): what it returns
\* ("raised" for an exception that leaves it) and what it appends to the store
save_important_nlu_analysis(doc, cm, th) ==
    IF ~cm.readable THEN [returned |-> "raised", added |-> <<>>]
    ELSE IF importance_score(doc) >= th
        THEN IF add_nlu_analysis_raises
                 THEN [returned |-> "raised", added |-> <<>>]
                 ELSE [returned |-> "true", added |-> <<doc>>]
        ELSE [returned |-> "true", added |-> <<>>]

\* variant: a turn without an analysis is answered with the fallback text
process_message_needs_analysis(doc, cm, th, generation_ok) ==
    IF doc.present /\ generation_ok
        THEN [nlu |-> doc, response |-> Generated, generation |-> "returned", added |-> <<>>]
        ELSE [nlu |-> NoneResult, response |-> Apology,
              generation |-> IF doc.present THEN "raised" ELSE "not_called", added |-> <<>>]

\* NLUProcessor.process_message: doc is what analyze_message_nlu returned (NoneResult
\* for None), generation_ok whether generate_response returns or raises.  The whole
\* body is in one try; its except returns (None, fallback text).
process_message(doc, cm, th, generation_ok) ==
    LET save == doc.present /\ should_save_to_longterm(doc, cm, th)
        failed == [nlu |-> NoneResult, response |-> Apology, generation |-> "not_called",
                   added |-> <<>>]
    IN  IF save /\ add_nlu_analysis_raises THEN failed
        ELSE LET added == IF save THEN <<doc>> ELSE <<>>
             IN  IF generation_ok
                     THEN [nlu |-> doc, response |-> Generated, generation |-> "returned",
                           added |-> added]
                     ELSE [nlu |-> NoneResult, response |-> Apology, generation |-> "raised",
                           added |-> added]

TurnInit ==
    /\ config_manager \in TurnConfigManagers
    /\ router = "absent"
    /\ router_config = NoConfig
    /\ nlu_result \in TurnDocs \cup {NoneResult}
    /\ contexts = NoContexts
    /\ total_tokens = 0
    /\ score = 0
    /\ threshold \in Thresholds
    /\ lm = <<>>
    /\ response = "none"
    /\ generation = "not_called"
    /\ saved = "none"
    /\ SessionIdle
    /\ WorkflowIdle
    /\ ParserIdle
    /\ pc = "turn"

\* save = should_save_to_longterm(nlu_result)
ShouldSave ==
    /\ pc = "turn"
    /\ nlu_result.present
    /\ score' = importance_score(nlu_result)
    /\ saved' = IF should_save_to_longterm(nlu_result, config_manager, threshold)
                    THEN "true" ELSE "false"
    /\ pc' = "decided"
    /\ UNCHANGED <<router_vars, nlu_result, threshold, lm, response, generation, parser_vars>>
    /\ UNCHANGED <<session_vars, workflow_vars>>

\* memory_manager.save_important_nlu_analysis(user_id, nlu_result)
SaveImportant ==
    /\ pc = "turn"
    /\ nlu_result.present
    /\ LET r == save_important_nlu_analysis(nlu_result, config_manager, threshold)
       IN  /\ saved' = r.returned
           /\ lm' = lm \o r.added
    /\ score' = importance_score(nlu_result)
    /\ pc' = "saved"
    /\ UNCHANGED <<router_vars, nlu_result, threshold, response, generation, parser_vars>>
    /\ UNCHANGED <<session_vars, workflow_vars>>

\* nlu_result, response = llm_processor.process_message(user_id, message, messages)
ProcessMessage ==
    /\ pc = "turn"
    /\ \E generation_ok \in BOOLEAN :
          LET r == process_message(nlu_result, config_manager, threshold, generation_ok)
          IN  /\ response' = r.response
              /\ generation' = r.generation
              /\ lm' = lm \o r.added
              /\ saved' = IF r.nlu.present THEN "analysis" ELSE "none"
    /\ score' = IF nlu_result.present THEN importance_score(nlu_result) ELSE 0
    /\ pc' = "answered"
    /\ UNCHANGED <<router_vars, nlu_result, threshold, parser_vars>>
    /\ UNCHANGED <<session_vars, workflow_vars>>

TurnNext == ShouldSave \/ SaveImportant \/ ProcessMessage

TurnSpec == TurnInit /\ [][TurnNext]_vars

----------------------------------------------------------------------------
(* The session in Redis: ShortTermMemory (src/src/memory/short_term.py) on     *)
(* RedisClient (src/src/utils/redis_client.py), MemoryManager.process_user_message *)

\* config.memory.sm_ttl, in seconds
sm_ttl == 240

\* the key is not there: EXISTS is 0, GET is nil, TTL is -2
NoKey == [present |-> FALSE, data |-> <<>>, ttl |-> -2]

\* redis.exists(key)
redis_exists(r) == r.present

\* redis.get_ttl(key): -2 without the key, -1 for a key without expiry
redis_get_ttl(r) == r.ttl

\* redis.set_json(key, value): SET puts the value and discards the expiry of the key
redis_set(r, value) == [present |-> TRUE, data |-> value, ttl |-> -1]

\* redis.set_json(key, value, ttl): SETEX
redis_setex(r, value, ttl) == [present |-> TRUE, data |-> value, ttl |-> ttl]

\* redis.expire(key, ttl): nothing without the key
redis_expire(r, ttl) == IF r.present THEN [r EXCEPT !.ttl = ttl] ELSE r

\* the two operations that append to a session, and the messages they append
SessionOps == {"add_message", "process_user_message"}
Messages == {"m1", "m2"}

\* an operation that has not started: its message, where it is, the Conversation it
\* holds, what it does once its save is over, what it returned, and whether is_valid
\* told it that the session is not valid
Started(op, message) ==
    [op |-> op, message |-> message,
     pc |-> IF op = "add_message" THEN "load_exists" ELSE "sm_exists",
     conversation |-> <<>>, after_save |-> "return", success |-> "none",
     seen_invalid |-> FALSE]

\* the sessions a run starts from: none, or a live one with zero or one message
StoredSessions ==
    {NoKey} \cup { [present |-> TRUE, data |-> d, ttl |-> sm_ttl] : d \in {<<>>, <<"m0">>} }

SessionInit ==
    /\ config_manager \in { m \in ConfigManagers :
                               m.readable /\ m.config = [is_str |-> TRUE, default_intent |-> <<>>] }
    /\ router = "absent"
    /\ router_config = NoConfig
    /\ nlu_result = NoneResult
    /\ contexts = NoContexts
    /\ total_tokens = 0
    /\ score = 0
    /\ threshold = 0
    /\ lm = <<>>
    /\ response = "none"
    /\ generation = "not_called"
    /\ saved = "none"
    /\ memory_config \in [extend_ttl_on_activity : BOOLEAN]
    /\ redis \in StoredSessions
    /\ procs \in { <<Started(a, "m1"), Started(b, "m2")>> : a \in SessionOps, b \in SessionOps }
    /\ WorkflowIdle
    /\ ParserIdle
    /\ pc = "session"

\* process p moves to pc_ with the locals changed as given; the store becomes r
SessionStep(p, r, changed) ==
    /\ redis' = r
    /\ procs' = [procs EXCEPT ![p] = changed]
    /\ UNCHANGED <<router_vars, nlu_result, score, threshold, lm, response, generation, saved>>
    /\ UNCHANGED <<memory_config, workflow_vars, parser_vars, pc>>

\* conversation = Conversation(user_id=user_id); self.sm.save(conversation); then the
\* message is added and the conversation saved again (manager.py:39-47)
CreateAndSave(q) ==
    [q EXCEPT !.conversation = <<>>, !.pc = "save_exists", !.after_save = "add_message"]

\* conversation.add_message(message); self.sm.save(conversation)
AddAndSave(q, loaded) ==
    [q EXCEPT !.conversation = Append(loaded, q.message), !.pc = "save_exists",
              !.after_save = "return"]

\* ShortTermMemory.load returned None: add_message returns False (short_term.py:131-133),
\* process_user_message goes on with a new Conversation that it does not save before
\* the message is added (manager.py:31-34)
LoadedNone(q) ==
    IF q.op = "add_message" THEN [q EXCEPT !.pc = "done", !.success = "false"]
    ELSE AddAndSave(q, <<>>)

\* ShortTermMemory.save is over
Saved(q) ==
    IF q.after_save = "add_message" THEN AddAndSave(q, q.conversation)
    ELSE [q EXCEPT !.pc = "done", !.success = "true"]

\* is_valid found the key without a positive TTL
Invalid(q) == [q EXCEPT !.seen_invalid = @ \/ redis_exists(redis)]

\* MemoryManager.process_user_message: self.sm.exists(user_id)
SmExists ==
    \E p \in DOMAIN procs :
        /\ procs[p].pc = "sm_exists"
        /\ SessionStep(p, redis, IF redis_exists(redis) THEN [procs[p] EXCEPT !.pc = "valid_exists"]
                                  ELSE CreateAndSave(procs[p]))

\* self.sm.is_valid(user_id): its exists
IsValidExists ==
    \E p \in DOMAIN procs :
        /\ procs[p].pc = "valid_exists"
        /\ SessionStep(p, redis, IF redis_exists(redis) THEN [procs[p] EXCEPT !.pc = "valid_ttl"]
                                  ELSE CreateAndSave(procs[p]))

\* self.sm.is_valid(user_id): ttl > 0
IsValidTtl ==
    \E p \in DOMAIN procs :
        /\ procs[p].pc = "valid_ttl"
        /\ SessionStep(p, redis, IF redis_get_ttl(redis) > 0 THEN [procs[p] EXCEPT !.pc = "load_exists"]
                                  ELSE CreateAndSave(Invalid(procs[p])))

\* ShortTermMemory.load: the exists of its is_valid
LoadExists ==
    \E p \in DOMAIN procs :
        /\ procs[p].pc = "load_exists"
        /\ SessionStep(p, redis, IF redis_exists(redis) THEN [procs[p] EXCEPT !.pc = "load_ttl"]
                                  ELSE LoadedNone(procs[p]))

\* ShortTermMemory.load: the ttl > 0 of its is_valid
LoadTtl ==
    \E p \in DOMAIN procs :
        /\ procs[p].pc = "load_ttl"
        /\ SessionStep(p, redis, IF redis_get_ttl(redis) > 0 THEN [procs[p] EXCEPT !.pc = "load_get"]
                                  ELSE LoadedNone(Invalid(procs[p])))

\* ShortTermMemory.load: get_json; then the caller adds its message to the Conversation
LoadGet ==
    \E p \in DOMAIN procs :
        /\ procs[p].pc = "load_get"
        /\ SessionStep(p, redis, IF redis_exists(redis) THEN AddAndSave(procs[p], redis.data)
                                  ELSE LoadedNone(procs[p]))

\* ShortTermMemory.save: should_extend_ttl
SaveExists ==
    \E p \in DOMAIN procs :
        /\ procs[p].pc = "save_exists"
        /\ SessionStep(p, redis,
                       [procs[p] EXCEPT !.pc = IF memory_config.extend_ttl_on_activity
                                                  /\ redis_exists(redis)
                                                   THEN "save_set" ELSE "save_setex"])

\* self.redis.set_json(key, conversation_data)
SaveSet ==
    \E p \in DOMAIN procs :
        /\ procs[p].pc = "save_set"
        /\ SessionStep(p, redis_set(redis, procs[p].conversation),
                       [procs[p] EXCEPT !.pc = "extend_exists"])

\* extend_ttl: its exists
ExtendExists ==
    \E p \in DOMAIN procs :
        /\ procs[p].pc = "extend_exists"
        /\ SessionStep(p, redis, IF redis_exists(redis) THEN [procs[p] EXCEPT !.pc = "extend_expire"]
                                  ELSE Saved(procs[p]))

\* extend_ttl: self.redis.expire(key, self.config.sm_ttl)
ExtendExpire ==
    \E p \in DOMAIN procs :
        /\ procs[p].pc = "extend_expire"
        /\ SessionStep(p, redis_expire(redis, sm_ttl), Saved(procs[p]))

\* self.redis.set_json(key, conversation_data, ttl=self.config.sm_ttl)
SaveSetex ==
    \E p \in DOMAIN procs :
        /\ procs[p].pc = "save_setex"
        /\ SessionStep(p, redis_setex(redis, procs[p].conversation, sm_ttl), Saved(procs[p]))

SessionNext ==
    \/ SmExists \/ IsValidExists \/ IsValidTtl
    \/ LoadExists \/ LoadTtl \/ LoadGet
    \/ SaveExists \/ SaveSet \/ ExtendExists \/ ExtendExpire \/ SaveSetex

SessionSpec == SessionInit /\ [][SessionNext]_vars

----------------------------------------------------------------------------
(* The workflow of one inbound message: process_multimodal_input (main.py),    *)
(* MemoryManager.process_user_message and add_assistant_response run alone,   *)
(* NLUProcessor.process_message step by step                                   *)

\* the longest stored conversation a turn starts from
MaxHistory == 7

\* ShortTermMemory.is_valid
is_valid(r) == redis_exists(r) /\ redis_get_ttl(r) > 0

\* ShortTermMemory.save(conversation) with nothing else running: with
\* extend_ttl_on_activity and the key present, set_json without ttl and then extend_ttl,
\* otherwise set_json with the ttl
save(r, cfg, messages) ==
    IF cfg.extend_ttl_on_activity /\ redis_exists(r)
        THEN redis_expire(redis_set(r, messages), sm_ttl)
        ELSE redis_setex(r, messages, sm_ttl)

\* ShortTermMemory.load: None unless the session is valid
load(r) ==
    IF is_valid(r) THEN [found |-> TRUE, messages |-> r.data]
    ELSE [found |-> FALSE, messages |-> <<>>]

\* MemoryManager.process_user_message: the stored session and the Conversation returned
process_user_message(r, cfg, message) ==
    LET Stored(messages, r1) ==
            [redis |-> save(r1, cfg, Append(messages, message)),
             messages |-> Append(messages, message)]
    IN  IF redis_exists(r) /\ is_valid(r) THEN Stored(load(r).messages, r)
        ELSE Stored(<<>>, save(r, cfg, <<>>))

\* ShortTermMemory.add_message: the stored session and the bool returned
add_message(r, cfg, message) ==
    IF load(r).found
        THEN [redis |-> save(r, cfg, Append(load(r).messages, message)), success |-> TRUE]
        ELSE [redis |-> r, success |-> FALSE]

\* variant: the last five messages of the conversation
conversation_context_last_five(conversation_messages) ==
    IF Len(conversation_messages) > 5
        THEN Slice(conversation_messages, Len(conversation_messages) - 4,
                   Len(conversation_messages))
        ELSE conversation_messages

\* the conversation_context process_message gives to analyze_message_nlu:
\* previous_messages = conversation_messages[:-1] if len(conversation_messages) > 1
\* else []; previous_messages[-5:] if len(previous_messages) > 5 else previous_messages
conversation_context(conversation_messages) ==
    LET Recent(previous_messages) ==
            IF Len(previous_messages) > 5
                THEN Slice(previous_messages, Len(previous_messages) - 4,
                           Len(previous_messages))
                ELSE previous_messages
    IN  Recent(IF Len(conversation_messages) > 1
                   THEN Slice(conversation_messages, 1, Len(conversation_messages) - 1)
                   ELSE <<>>)

\* a stored conversation of n messages; a message is named by its place in the history
History(n) == [i \in 1..n |-> i]

\* the sessions a turn starts from: none, or a live one with up to MaxHistory messages
WorkflowSessions ==
    {NoKey} \cup { [present |-> TRUE, data |-> History(n), ttl |-> sm_ttl] : n \in 0..MaxHistory }

\* what analyze_message_nlu can return for the message: None, or an analysis with
\* one intent
WorkflowDocs ==
    {NoneResult} \cup { d \in TurnDocs : Len(d.intents) = 1 }

\* the long-term memory of the user: nothing, or one analysis of an earlier message
WorkflowMemories ==
    { <<>>,
      <<[message |-> 0,
         analysis |-> [present |-> TRUE, content |-> Msg_Budget_Gaming,
                       intents |-> <<[name |-> "purchase_intent", confidence |-> 80]>>,
                       entities |-> <<>>, sentiment |-> "none"]]>> }

\* the message of the turn: the last one of the Conversation process_user_message returned
user_message == IF conversation = <<>> THEN 0 ELSE conversation[Len(conversation)]

WorkflowInit ==
    /\ config_manager \in { m \in ConfigManagers :
                               m.readable /\ m.config = [is_str |-> TRUE, default_intent |-> <<>>] }
    /\ router = "absent"
    /\ router_config = NoConfig
    /\ nlu_result = NoneResult
    /\ contexts = NoContexts
    /\ total_tokens = 0
    /\ score = 0
    /\ threshold \in {350, 700}
    /\ lm \in WorkflowMemories
    /\ response = "none"
    /\ generation = "not_called"
    /\ saved = "none"
    /\ memory_config \in [extend_ttl_on_activity : BOOLEAN]
    /\ redis \in WorkflowSessions
    /\ procs = <<>>
    /\ WorkflowIdle
    /\ ParserIdle
    /\ pc = "process_user_message"

\* the call is recorded and the workflow moves on
WorkflowStep(call, next) ==
    /\ steps' = Append(steps, call)
    /\ pc' = next
    /\ UNCHANGED <<router_vars, threshold, memory_config, procs, parser_vars>>

\* conversation = memory_manager.process_user_message(user_id, user_message): a new
\* turn starts
MemoryProcess ==
    /\ pc = "process_user_message"
    /\ Len(redis.data) <= MaxHistory
    /\ LET r == process_user_message(redis, memory_config, Len(redis.data) + 1)
       IN  /\ redis' = r.redis
           /\ conversation' = r.messages
    /\ steps' = <<"process_user_message">>
    /\ pc' = "lm.load"
    /\ nlu_result' = NoneResult
    /\ score' = 0
    /\ response' = "none"
    /\ generation' = "not_called"
    /\ saved' = "none"
    /\ lm_context' = <<>>
    /\ context_messages' = <<>>
    /\ context_selection' = "not_given"
    /\ UNCHANGED <<router_vars, threshold, lm, memory_config, procs, parser_vars>>

\* lm_context = self.lm.load(user_id)
LmLoad ==
    /\ pc = "lm.load"
    /\ lm_context' = lm
    /\ WorkflowStep("lm.load", "analyze_message_nlu")
    /\ UNCHANGED <<nlu_result, score, lm, response, generation, saved, redis, conversation,
                   context_messages, context_selection>>

\* nlu_result = analyze_message_nlu(user_message.content, context_messages); without an
\* analysis the response is generated next
AnalyzeMessageNlu ==
    /\ pc = "analyze_message_nlu"
    /\ context_messages' = conversation_context(conversation)
    /\ \E doc \in WorkflowDocs :
          /\ nlu_result' = doc
          /\ WorkflowStep("analyze_message_nlu",
                          IF doc.present THEN "should_save_to_longterm" ELSE "generate_response")
    /\ UNCHANGED <<score, lm, response, generation, saved, redis, conversation, lm_context,
                   context_selection>>

\* if should_save_to_longterm(nlu_result): the score against the threshold
ShouldSaveToLongterm ==
    /\ pc = "should_save_to_longterm"
    /\ score' = importance_score(nlu_result)
    /\ saved' = IF should_save_to_longterm(nlu_result, config_manager, threshold)
                    THEN "true" ELSE "false"
    /\ WorkflowStep("should_save_to_longterm",
                    IF should_save_to_longterm(nlu_result, config_manager, threshold)
                        THEN "add_nlu_analysis" ELSE "generate_response")
    /\ UNCHANGED <<nlu_result, lm, response, generation, redis, conversation, lm_context,
                   context_messages, context_selection>>

\* self.lm.add_nlu_analysis(user_id, nlu_result): the AttributeError ends the try, and
\* process_message returns (None, fallback text)
AddNluAnalysis ==
    /\ pc = "add_nlu_analysis"
    /\ IF add_nlu_analysis_raises
           THEN /\ nlu_result' = NoneResult
                /\ response' = Apology
                /\ lm' = lm
                /\ WorkflowStep("add_nlu_analysis", "add_assistant_response")
           ELSE /\ lm' = Append(lm, [message |-> user_message, analysis |-> nlu_result])
                /\ UNCHANGED <<nlu_result, response>>
                /\ WorkflowStep("add_nlu_analysis", "generate_response")
    /\ UNCHANGED <<score, generation, saved, redis, conversation, lm_context,
                   context_messages, context_selection>>

\* response_content = generate_response(conversation_messages, lm_context): no
\* context_selection is given, so the parameter is None; an exception of the call ends
\* the try
GenerateResponse ==
    /\ pc = "generate_response"
    /\ context_selection' = "None"
    /\ \E generation_ok \in BOOLEAN :
          IF generation_ok
              THEN /\ response' = Generated
                   /\ generation' = "returned"
                   /\ UNCHANGED nlu_result
              ELSE /\ response' = Apology
                   /\ generation' = "raised"
                   /\ nlu_result' = NoneResult
    /\ WorkflowStep("generate_response", "add_assistant_response")
    /\ UNCHANGED <<score, lm, saved, redis, conversation, lm_context, context_messages>>

\* memory_manager.add_assistant_response(user_id, assistant_message); the turn is over
AddAssistantResponse ==
    /\ pc = "add_assistant_response"
    /\ redis' = add_message(redis, memory_config, Len(redis.data) + 1).redis
    /\ WorkflowStep("add_assistant_response", "process_user_message")
    /\ UNCHANGED <<nlu_result, score, lm, response, generation, saved, conversation,
                   lm_context, context_messages, context_selection>>

WorkflowNext ==
    \/ MemoryProcess \/ LmLoad \/ AnalyzeMessageNlu \/ ShouldSaveToLongterm
    \/ AddNluAnalysis \/ GenerateResponse \/ AddAssistantResponse

WorkflowSpec == WorkflowInit /\ [][WorkflowNext]_vars

----------------------------------------------------------------------------
(* Python str and re primitives the parsers use, on sequences of code points *)

\* str.find(w, i): index of the first occurrence of w in s at or after i, 0 for none
IndexOf(s, w, i) ==
    LET At(p) == p >= i /\ p + Len(w) - 1 <= Len(s) /\ \A k \in 1..Len(w) : s[p + k - 1] = w[k]
        First(found) == IF found = <<>> THEN 0 ELSE found[1]
    IN  First(SelectSeq([p \in 1..Len(s) |-> p], At))

\* str.split(w) for a non-empty separator w: always at least one piece
RECURSIVE SplitBy(_, _)
SplitBy(s, w) ==
    LET i == IndexOf(s, w, 1) IN
        IF i = 0 THEN <<s>>
        ELSE <<Slice(s, 1, i - 1)>> \o SplitBy(Slice(s, i + Len(w), Len(s)), w)

\* str.replace(w, "")
Remove(s, w) == Join(SplitBy(s, w), <<>>)

\* character classes of the patterns
Digits == 48..57
Letters == (65..90) \cup (97..122)
Thai == 3584..3711
WordChars == Letters \cup Digits \cup {95} \cup Thai
Spaces == {9, 10, 11, 12, 13, 32}

upper(s) == [i \in DOMAIN s |-> IF s[i] \in 97..122 THEN s[i] - 32 ELSE s[i]]

\* a pattern is a sequence of items; every pattern of the parsers is compiled with
\* re.IGNORECASE or has no letter of its own:
\*   Lit(w)                    the characters of w
\*   Alt(ws)                   (w1|w2|...), tried in order
\*   Cls(set, neg, lo, hi, lazy)  [set]{lo,hi} or [^set]{lo,hi}; hi = -1 is no limit
\*   WordBoundary              \b
Lit(w) == [t |-> "lit", alts |-> <<w>>, set |-> {}, neg |-> FALSE, lo |-> 1, hi |-> 1, lazy |-> FALSE]
Alt(ws) == [t |-> "lit", alts |-> ws, set |-> {}, neg |-> FALSE, lo |-> 1, hi |-> 1, lazy |-> FALSE]
Cls(set, neg, lo, hi, lazy) ==
    [t |-> "cls", alts |-> <<>>, set |-> set, neg |-> neg, lo |-> lo, hi |-> hi, lazy |-> lazy]
WordBoundary == [t |-> "wb", alts |-> <<>>, set |-> {}, neg |-> FALSE, lo |-> 0, hi |-> 0, lazy |-> FALSE]

\* the usual quantified classes
Star(set) == Cls(set, FALSE, 0, -1, FALSE)
Plus(set) == Cls(set, FALSE, 1, -1, FALSE)
Opt(set) == Cls(set, FALSE, 0, 1, FALSE)
One(set) == Cls(set, FALSE, 1, 1, FALSE)
LazyStarNot(set) == Cls(set, TRUE, 0, -1, TRUE)
LazyPlusNot(set) == Cls(set, TRUE, 1, -1, TRUE)
PlusNot(set) == Cls(set, TRUE, 1, -1, FALSE)

\* code point c is matched by the class of item it, letters without regard to case
InClass(c, it) ==
    LET in == c \in it.set
                \/ (c \in 65..90 /\ (c + 32) \in it.set)
                \/ (c \in 97..122 /\ (c - 32) \in it.set)
    IN  IF it.neg THEN ~in ELSE in

\* w occurs in text at pos, letters without regard to case
LitAt(text, pos, w) ==
    /\ pos + Len(w) - 1 <= Len(text)
    /\ \A k \in 1..Len(w) : lower(<<text[pos + k - 1]>>) = lower(<<w[k]>>)

\* the number of consecutive characters from pos that item it matches, at most it.hi
RunLen(text, pos, it, n) ==
    LET Stops(k) == ~InClass(text[pos + k], it)
        Until(limit) ==
            IF limit <= n THEN n
            ELSE IF \E k \in n..(limit - 1) : Stops(k)
                THEN CHOOSE k \in n..(limit - 1) : Stops(k) /\ \A j \in n..(k - 1) : ~Stops(j)
            ELSE limit
    IN  Until(IF it.hi >= 0 THEN Min(it.hi, Len(text) - pos + 1) ELSE Len(text) - pos + 1)

\* \b at pos: exactly one of the characters before and after pos is a word character
AtWordBoundary(text, pos) ==
    LET before == pos > 1 /\ text[pos - 1] \in WordChars
        after == pos <= Len(text) /\ text[pos] \in WordChars
    IN  before /= after

\* The match a backtracking engine finds for items k.. of a pattern at pos depends on k
\* and pos only, so the matches are tabulated, last item first: row k holds, for every
\* pos in 1..Len(text)+1, <<>> when items k.. do not match at pos, otherwise the
\* positions where the items k.. start followed by the end of the match.

\* the first count of a class item, in the order the engine tries them, that lets the
\* rest of the pattern match
TryCounts(next, pos, c, last, step) ==
    LET Fits(k) == next[pos + c + (k - 1) * step] /= <<>>
        Tried(tries) ==
            IF \E k \in 1..tries : Fits(k)
                THEN <<pos>> \o next[pos + c + ((CHOOSE k \in 1..tries :
                                                     Fits(k) /\ \A j \in 1..(k - 1) : ~Fits(j)) - 1) * step]
                ELSE <<>>
    IN  Tried((last - c) * step + 1)

\* the first alternative of a literal item that lets the rest of the pattern match
RECURSIVE TryAlts(_, _, _, _, _)
TryAlts(alts, text, next, pos, a) ==
    IF a > Len(alts) THEN <<>>
    ELSE IF LitAt(text, pos, alts[a]) /\ next[pos + Len(alts[a])] /= <<>>
        THEN <<pos>> \o next[pos + Len(alts[a])]
    ELSE TryAlts(alts, text, next, pos, a + 1)

\* the match of item it followed by the rest of the pattern (row next) at pos
MatchFrom(it, text, next, pos) ==
    IF it.t = "lit" THEN TryAlts(it.alts, text, next, pos, 1)
    ELSE IF it.t = "wb"
        THEN IF AtWordBoundary(text, pos) /\ next[pos] /= <<>>
                 THEN <<pos>> \o next[pos] ELSE <<>>
    ELSE LET run == RunLen(text, pos, it, 0) IN
         IF run < it.lo THEN <<>>
         ELSE IF it.lazy THEN TryCounts(next, pos, it.lo, run, 1)
         ELSE TryCounts(next, pos, run, it.lo, -1)

\* the row of item it: its match at every position, given the row of the items after it
MatchRow(it, text, next) ==
    [pos \in 1..(Len(text) + 1) |-> MatchFrom(it, text, next, pos)] \o <<>>

\* the row after the last item: the empty rest of a pattern matches everywhere
EndRow(text) == [pos \in 1..(Len(text) + 1) |-> <<pos>>] \o <<>>

\* row 1: the match of the whole pattern at every position
RECURSIVE MatchTable(_, _, _, _)
MatchTable(re, text, k, next) ==
    IF k = 0 THEN next
    ELSE MatchTable(re, text, k - 1, MatchRow(re[k], text, next))

\* a literal item of a pattern that matches has one of its alternatives in the text
Occurs(it, text) ==
    it.t = "lit" => \E a \in DOMAIN it.alts : \E p \in 1..Len(text) : LitAt(text, p, it.alts[a])

Matches(re, text) ==
    IF \A k \in DOMAIN re : Occurs(re[k], text)
        THEN MatchTable(re, text, Len(re), EndRow(text))
        ELSE [pos \in 1..(Len(text) + 1) |-> <<>>]

\* the leftmost match at pos or later in a row of matches
Leftmost(row, pos) ==
    IF \E p \in pos..Len(row) : row[p] /= <<>>
        THEN row[CHOOSE p \in pos..Len(row) : row[p] /= <<>> /\ \A q \in pos..(p - 1) : row[q] = <<>>]
        ELSE <<>>

\* re.search(re, text) from position pos on: the positions of the leftmost match
re_search(re, text, pos) == Leftmost(Matches(re, text), pos)

\* the matches of a row from left to right, none overlapping
RECURSIVE NonOverlapping(_, _)
NonOverlapping(row, pos) ==
    LET m == Leftmost(row, pos) IN
        IF m = <<>> THEN <<>>
        ELSE <<m>> \o NonOverlapping(row, IF m[Len(m)] > m[1] THEN m[Len(m)] ELSE m[1] + 1)

\* re.finditer(re, text)
re_finditer(re, text, pos) == NonOverlapping(Matches(re, text), pos)

\* the text of the group made of items i..j of a match m
Group(text, m, i, j) == Slice(text, m[i], m[j + 1] - 1)

----------------------------------------------------------------------------
(* RobustNLUParser (src/src/llm/utils.py): the structured strategy *)

\* the delimiters of the parser: "<||>", "##", "<|COMPLETE|>"
tuple_delimiter == <<60, 124, 124, 62>>
record_delimiter == <<35, 35>>
completion_delimiter == <<60, 124, 67, 79, 77, 80, 76, 69, 84, 69, 124, 62>>

\* words of the code: "intent", "entity", "language", "sentiment", "positive",
\* "negative", "neutral", "Output:", "Result:"
S_intent == <<105, 110, 116, 101, 110, 116>>
S_entity == <<101, 110, 116, 105, 116, 121>>
S_language == <<108, 97, 110, 103, 117, 97, 103, 101>>
S_sentiment == <<115, 101, 110, 116, 105, 109, 101, 110, 116>>
S_positive == <<112, 111, 115, 105, 116, 105, 118, 101>>
S_negative == <<110, 101, 103, 97, 116, 105, 118, 101>>
S_neutral == <<110, 101, 117, 116, 114, 97, 108>>
S_output == <<79, 117, 116, 112, 117, 116, 58>>
S_result == <<82, 101, 115, 117, 108, 116, 58>>

\* the value of a string of decimal digits
RECURSIVE DigitsValue(_)
DigitsValue(s) ==
    IF s = <<>> THEN 0 ELSE DigitsValue(Slice(s, 1, Len(s) - 1)) * 10 + (s[Len(s)] - 48)

\* float(s.strip()), in hundredths: a sign, digits, a point and digits; ok is FALSE where
\* float raises ValueError.  Digits after the second decimal are dropped; numerals with
\* an exponent, "inf" and "nan" are not among the texts parsed here.
float(s) ==
    LET Value(negative, ip, fp) ==
            IF Range(ip) \subseteq Digits /\ Range(fp) \subseteq Digits /\ Len(ip) + Len(fp) > 0
                THEN [ok |-> TRUE,
                      value |-> (IF negative THEN -1 ELSE 1)
                                    * (DigitsValue(ip) * 100
                                           + DigitsValue(Slice(fp \o <<48, 48>>, 1, 2)))]
            ELSE [ok |-> FALSE, value |-> 0]
        AtPoint(negative, u, dot) ==
            IF dot = 0 THEN Value(negative, u, <<>>)
            ELSE Value(negative, Slice(u, 1, dot - 1), Slice(u, dot + 1, Len(u)))
        Unsigned(negative, u) == AtPoint(negative, u, FirstIndex(u, 46, 1))
        Stripped(t) ==
            IF t /= <<>> /\ t[1] \in {43, 45} THEN Unsigned(t[1] = 45, Tail(t))
            ELSE Unsigned(FALSE, t)
    IN  Stripped(Strip(s, Spaces))

\* max(0.0, min(1.0, parsed)), the default where float raised
Clamped(f, default) == IF f.ok THEN Max(0, Min(100, f.value)) ELSE default

\* _safe_float_parse: max(0.0, min(1.0, parsed)), the default on ValueError
_safe_float_parse(value, default) == Clamped(float(value), default)

\* int(f), truncated towards zero, the default where float raised
Truncated(f, default) ==
    IF ~f.ok THEN default
    ELSE IF f.value >= 0 THEN f.value \div 100 ELSE 0 - ((0 - f.value) \div 100)

\* _safe_int_parse: int(float(value.strip()))
_safe_int_parse(value, default) == Truncated(float(value), default)

\* str.split() without a separator: the maximal runs of non-whitespace
RECURSIVE SplitWhitespace(_)
SplitWhitespace(s) ==
    LET t == LStrip(s, Spaces)
        n == RunLen(t, 1, PlusNot(Spaces), 0)
    IN  IF t = <<>> THEN <<>>
        ELSE <<Slice(t, 1, n)>> \o SplitWhitespace(Slice(t, n + 1, Len(t)))

\* re.sub(r'\s+', ' ', s): a run of whitespace is kept as one space, at its first character
CollapseSpaces(s) ==
    LET FirstOfRun(i) == s[i] \in Spaces => (i = 1 \/ s[i - 1] \notin Spaces)
        Kept(kept) == [k \in 1..Len(kept) |-> IF s[kept[k]] \in Spaces THEN 32 ELSE s[kept[k]]]
    IN  Kept(SelectSeq([i \in 1..Len(s) |-> i], FirstOfRun)) \o <<>>

\* re.sub(r'^Word:\s*', '', s, flags=re.IGNORECASE)
DropPrefix(s, word) ==
    LET After(m) == IF m = <<>> THEN s ELSE Slice(s, m[Len(m)], Len(s))
    IN  After(Matches(<<Lit(word), Star(Spaces)>>, s)[1])

\* RobustNLUParser._clean_output
_clean_output(output) ==
    DropPrefix(DropPrefix(CollapseSpaces(Strip(Remove(output, completion_delimiter), Spaces)),
                          S_output), S_result)

\* [part.strip() for part in parts if part.strip()]
StripNonEmpty(parts) ==
    SelectSeq([i \in DOMAIN parts |-> Strip(parts[i], Spaces)], LAMBDA q : q /= <<>>)

\* the newline strategy of _extract_records: a line that starts with "(" closes the
\* record collected so far when that record has a ")"
RECURSIVE GroupLines(_, _, _)
GroupLines(lines, current_record, records) ==
    IF lines = <<>>
        THEN IF current_record /= <<>> THEN Append(records, current_record) ELSE records
    ELSE LET line == Strip(Head(lines), Spaces) IN
         IF line /= <<>> /\ line[1] = 40 /\ current_record /= <<>> /\ 41 \in Range(current_record)
             THEN GroupLines(Tail(lines), line, Append(records, current_record))
             ELSE GroupLines(Tail(lines),
                             IF current_record /= <<>> THEN current_record \o <<32>> \o line
                             ELSE line,
                             records)

\* variant: the record delimiter is not looked for, the records are the lines
_extract_records_lines_only(output) == GroupLines(SplitBy(output, <<10>>), <<>>, <<>>)

\* RobustNLUParser._extract_records
_extract_records(output) ==
    LET OrLines(by_delimiter) ==
            IF by_delimiter /= <<>> THEN by_delimiter
            ELSE GroupLines(SplitBy(output, <<10>>), <<>>, <<>>)
    IN  OrLines(IF IsSubstring(record_delimiter, output)
                    THEN StripNonEmpty(SplitBy(output, record_delimiter))
                    ELSE <<>>)

\* sentiment None
NoSentiment == [present |-> FALSE, label |-> <<>>, confidence |-> 0]

\* _init_result_structure: the lists, result["metadata"]["primary_language"] and
\* ["has_sentiment"], and parsing_metadata (validation_errors is the length of the list,
\* has_raw_output whether the key raw_output is there).  The counts and averages of
\* result["metadata"] and the per-record metadata dicts are left out.
_init_result_structure ==
    [intents |-> <<>>, entities |-> <<>>, languages |-> <<>>, sentiment |-> NoSentiment,
     primary_language |-> <<>>, has_sentiment |-> FALSE,
     has_parsing_metadata |-> TRUE, status |-> "success", strategy_used |-> "structured",
     validation_errors |-> 0, has_raw_output |-> FALSE, raw_output |-> <<>>]

\* what a step on the shared result dict returns: its bool and the dict afterwards
Done(ok, result_dict) == [ok |-> ok, result |-> result_dict]

\* RobustNLUParser._add_intent; parts[1] is the kind.  The validation after the clamp
\* (empty name, confidence outside [0, 1]) cannot fail: parts are stripped and non-empty
_add_intent(parts, r) ==
    IF Len(parts) < 4 THEN Done(FALSE, r)
    ELSE LET Validated(intent_data) ==
                 IF intent_data.name = <<>> \/ intent_data.confidence < 0
                        \/ intent_data.confidence > 100
                     THEN Done(FALSE, [r EXCEPT !.validation_errors = @ + 1])
                     ELSE Done(TRUE, [r EXCEPT !.intents = Append(@, intent_data)])
         IN  Validated([name |-> Strip(parts[2], Spaces),
                        confidence |-> _safe_float_parse(parts[3], 0),
                        priority_score |-> _safe_float_parse(parts[4], 0)])

\* RobustNLUParser._add_entity
_add_entity(parts, r) ==
    IF Len(parts) < 4 THEN Done(FALSE, r)
    ELSE LET Validated(entity_data) ==
                 IF entity_data.type = <<>> \/ entity_data.value = <<>>
                     THEN Done(FALSE, [r EXCEPT !.validation_errors = @ + 1])
                     ELSE Done(TRUE, [r EXCEPT !.entities = Append(@, entity_data)])
         IN  Validated([type |-> Strip(parts[2], Spaces),
                        value |-> Strip(parts[3], Spaces),
                        confidence |-> _safe_float_parse(parts[4], 0)])

\* RobustNLUParser._add_language
_add_language(parts, r) ==
    IF Len(parts) < 4 THEN Done(FALSE, r)
    ELSE LET Validated(language_data) ==
                 IF Len(language_data.code) /= 3
                     THEN Done(FALSE, [r EXCEPT !.validation_errors = @ + 1])
                     ELSE Done(TRUE, [r EXCEPT !.languages = Append(@, language_data),
                                               !.primary_language =
                                                   IF language_data.is_primary
                                                       THEN language_data.code ELSE @])
         IN  Validated([code |-> upper(Strip(parts[2], Spaces)),
                        confidence |-> _safe_float_parse(parts[3], 0),
                        is_primary |-> _safe_int_parse(parts[4], 0) = 1])

\* RobustNLUParser._add_sentiment
_add_sentiment(parts, r) ==
    IF Len(parts) < 3 THEN Done(FALSE, r)
    ELSE LET Validated(sentiment_data) ==
                 IF sentiment_data.label \notin {S_positive, S_negative, S_neutral}
                     THEN Done(FALSE, [r EXCEPT !.validation_errors = @ + 1])
                     ELSE Done(TRUE, [r EXCEPT !.sentiment = sentiment_data,
                                               !.has_sentiment = TRUE])
         IN  Validated([present |-> TRUE,
                        label |-> lower(Strip(parts[2], Spaces)),
                        confidence |-> _safe_float_parse(parts[3], 0)])

\* tuple_patterns of _parse_single_record: \(([^)]+)\), \[([^\]]+)\], ([^()[\]]+);
\* the content is group 1 of the first pattern found in the record, <<>> for none
TupleContent(record) ==
    LET GroupOf(m, i, otherwise) == IF m /= <<>> THEN Group(record, m, i, i) ELSE otherwise
    IN  GroupOf(re_search(<<Lit(<<40>>), PlusNot({41}), Lit(<<41>>)>>, record, 1), 2,
            GroupOf(re_search(<<Lit(<<91>>), PlusNot({93}), Lit(<<93>>)>>, record, 1), 2,
                GroupOf(re_search(<<PlusNot({40, 41, 91, 93})>>, record, 1), 1, <<>>)))

\* the split of the content: by the tuple delimiter, else by the first of "|", ",",
\* ";", tab that occurs, else by whitespace
SplitContent(content) ==
    IF IsSubstring(tuple_delimiter, content) THEN SplitBy(content, tuple_delimiter)
    ELSE IF 124 \in Range(content) THEN SplitBy(content, <<124>>)
    ELSE IF 44 \in Range(content) THEN SplitBy(content, <<44>>)
    ELSE IF 59 \in Range(content) THEN SplitBy(content, <<59>>)
    ELSE IF 9 \in Range(content) THEN SplitBy(content, <<9>>)
    ELSE SplitWhitespace(content)

\* RobustNLUParser._parse_single_record
_parse_single_record(record, r) ==
    LET OfType(parts, record_type) ==
            IF record_type = S_intent THEN _add_intent(parts, r)
            ELSE IF record_type = S_entity THEN _add_entity(parts, r)
            ELSE IF record_type = S_language THEN _add_language(parts, r)
            ELSE IF record_type = S_sentiment THEN _add_sentiment(parts, r)
            ELSE Done(FALSE, r)
        OfParts(parts) ==
            IF Len(parts) < 3 THEN Done(FALSE, r)
            ELSE OfType(parts, Strip(lower(parts[1]), Spaces))
        OfContent(content) ==
            IF content = <<>> THEN Done(FALSE, r)
            ELSE OfParts(StripNonEmpty(SplitContent(content)))
    IN  OfContent(TupleContent(record))

\* the loop of _parse_structured_format: the number of records parsed and the dict
RECURSIVE ParseRecords(_, _, _)
ParseRecords(records, successful_parses, r) ==
    IF records = <<>> THEN [successful_parses |-> successful_parses, result |-> r]
    ELSE LET Counted(d) ==
                 ParseRecords(Tail(records), successful_parses + (IF d.ok THEN 1 ELSE 0),
                              d.result)
         IN  Counted(_parse_single_record(Head(records), r))

\* variant: one parsed record is enough, whatever the number of records
_parse_structured_format_any_parsed(nlu_output, r) ==
    LET Rated(records, p) == Done(p.successful_parses > 0, p.result)
        OfRecords(records) ==
            IF records = <<>> THEN Done(FALSE, r) ELSE Rated(records, ParseRecords(records, 0, r))
    IN  OfRecords(_extract_records(_clean_output(nlu_output)))

\* RobustNLUParser._parse_structured_format: accepted when at least one record and at
\* least half of the records parsed
_parse_structured_format(nlu_output, r) ==
    LET Rated(records, p) ==
            Done(p.successful_parses > 0 /\ 2 * p.successful_parses >= Len(records), p.result)
        OfRecords(records) ==
            IF records = <<>> THEN Done(FALSE, r) ELSE Rated(records, ParseRecords(records, 0, r))
    IN  OfRecords(_extract_records(_clean_output(nlu_output)))

----------------------------------------------------------------------------
(* RobustNLUParser: the regex fallback, the line scan, the cascade *)

\* (\d+\.?\d*) ; \d and [^0-9] are read on ASCII digits, the only digits in the texts
Number == <<Plus(Digits), Opt({46}), Star(Digits)>>
NotParen == LazyStarNot({41})
NotDelim == LazyPlusNot({60, 62, 124})
ColonSpace == Star({58} \cup Spaces)
Name == Plus(Letters \cup {95})
SentimentLabel == Alt(<<S_positive, S_negative, S_neutral>>)
S_zero == <<48, 46, 48>>
S_one == <<49>>
S_braces == <<123, 125>>

\* a pattern with its groups: group g is made of items groups[g][1]..groups[g][2]
Pattern(re, groups) == [re |-> re, groups |-> groups]

\* r'\(intent[^)]*?([^<>|]+?)[^)]*?(\d+\.?\d*)[^)]*?\)'
\* r'intent[:\s]*([a-zA-Z_]+)[^0-9]*?(\d+\.?\d*)'
\* r'([a-zA-Z_]+_intent)[^0-9]*?(\d+\.?\d*)'
intent_patterns ==
    << Pattern(<<Lit(<<40>> \o S_intent), NotParen, NotDelim, NotParen>> \o Number
                   \o <<NotParen, Lit(<<41>>)>>, << <<3, 3>>, <<5, 7>> >>),
       Pattern(<<Lit(S_intent), ColonSpace, Name, LazyStarNot(Digits)>> \o Number,
               << <<3, 3>>, <<5, 7>> >>),
       Pattern(<<Name, Lit(<<95>> \o S_intent), LazyStarNot(Digits)>> \o Number,
               << <<1, 2>>, <<4, 6>> >>) >>

\* r'\(entity[^)]*?([^<>|]+?)[^)]*?([^<>|]+?)[^)]*?(\d+\.?\d*)[^)]*?\)'
\* r'entity[:\s]*([^,\s]+)[:\s]*([^,\s]+)[^0-9]*?(\d+\.?\d*)'
entity_patterns ==
    << Pattern(<<Lit(<<40>> \o S_entity), NotParen, NotDelim, NotParen, NotDelim, NotParen>>
                   \o Number \o <<NotParen, Lit(<<41>>)>>,
               << <<3, 3>>, <<5, 5>>, <<7, 9>> >>),
       Pattern(<<Lit(S_entity), ColonSpace, PlusNot({44} \cup Spaces), ColonSpace,
                 PlusNot({44} \cup Spaces), LazyStarNot(Digits)>> \o Number,
               << <<3, 3>>, <<5, 5>>, <<7, 9>> >>) >>

\* r'\(language[^)]*?([A-Z]{3})[^)]*?(\d+\.?\d*)[^)]*?\)'
\* r'language[:\s]*([A-Z]{3})[^0-9]*?(\d+\.?\d*)'
language_patterns ==
    << Pattern(<<Lit(<<40>> \o S_language), NotParen, Cls(65..90, FALSE, 3, 3, FALSE), NotParen>>
                   \o Number \o <<NotParen, Lit(<<41>>)>>, << <<3, 3>>, <<5, 7>> >>),
       Pattern(<<Lit(S_language), ColonSpace, Cls(65..90, FALSE, 3, 3, FALSE),
                 LazyStarNot(Digits)>> \o Number, << <<3, 3>>, <<5, 7>> >>) >>

\* r'\(sentiment[^)]*?(positive|negative|neutral)[^)]*?(\d+\.?\d*)[^)]*?\)'
\* r'sentiment[:\s]*(positive|negative|neutral)[^0-9]*?(\d+\.?\d*)'
sentiment_patterns ==
    << Pattern(<<Lit(<<40>> \o S_sentiment), NotParen, SentimentLabel, NotParen>>
                   \o Number \o <<NotParen, Lit(<<41>>)>>, << <<3, 3>>, <<5, 7>> >>),
       Pattern(<<Lit(S_sentiment), ColonSpace, SentimentLabel, LazyStarNot(Digits)>> \o Number,
               << <<3, 3>>, <<5, 7>> >>) >>

\* match.groups()
Groups(text, pat, m) ==
    [g \in DOMAIN pat.groups |-> Group(text, m, pat.groups[g][1], pat.groups[g][2])]

\* the call _extract_with_patterns makes for one match
AddMatched(content_type, groups, r) ==
    IF content_type = "intent"
        THEN _add_intent(<<S_intent, groups[1], groups[2], S_zero, S_braces>>, r).result
    ELSE IF content_type = "entity"
        THEN _add_entity(<<S_entity, groups[1], groups[2], groups[3], S_braces>>, r).result
    ELSE IF content_type = "language"
        THEN _add_language(<<S_language, groups[1], groups[2], S_one, S_braces>>, r).result
    ELSE _add_sentiment(<<S_sentiment, groups[1], groups[2], S_braces>>, r).result

RECURSIVE AddMatches(_, _, _, _, _)
AddMatches(text, pat, matches, content_type, r) ==
    IF matches = <<>> THEN r
    ELSE AddMatches(text, pat, Tail(matches), content_type,
                    AddMatched(content_type, Groups(text, pat, Head(matches)), r))

\* RobustNLUParser._extract_with_patterns: every match of every pattern, in order
RECURSIVE _extract_with_patterns(_, _, _, _)
_extract_with_patterns(text, patterns, content_type, r) ==
    IF patterns = <<>> THEN r
    ELSE _extract_with_patterns(text, Tail(patterns), content_type,
             AddMatches(text, Head(patterns), re_finditer(Head(patterns).re, text, 1),
                        content_type, r))

\* has_content of _parse_with_regex_fallback, on the shared dict
has_content(r) ==
    r.intents /= <<>> \/ r.entities /= <<>> \/ r.languages /= <<>> \/ r.sentiment.present

\* RobustNLUParser._parse_with_regex_fallback
_parse_with_regex_fallback(nlu_output, r) ==
    LET Extracted(r4) == Done(has_content(r4), r4)
    IN  Extracted(
            _extract_with_patterns(nlu_output, sentiment_patterns, "sentiment",
                _extract_with_patterns(nlu_output, language_patterns, "language",
                    _extract_with_patterns(nlu_output, entity_patterns, "entity",
                        _extract_with_patterns(nlu_output, intent_patterns, "intent", r)))))

\* the keyword lists of _parse_line_by_line:
\* ['intent', 'purchase', 'ask', 'cancel'], ['entity', 'product', 'brand', 'color'],
\* ['language', 'tha', 'usa', 'eng'], ['sentiment', 'positive', 'negative', 'neutral']
intent_line_keywords == <<<<105, 110, 116, 101, 110, 116>>, <<112, 117, 114, 99, 104, 97, 115, 101>>, <<97, 115, 107>>, <<99, 97, 110, 99, 101, 108>>>>
entity_line_keywords == <<<<101, 110, 116, 105, 116, 121>>, <<112, 114, 111, 100, 117, 99, 116>>, <<98, 114, 97, 110, 100>>, <<99, 111, 108, 111, 114>>>>
language_line_keywords ==
    <<<<108, 97, 110, 103, 117, 97, 103, 101>>, <<116, 104, 97>>, <<117, 115, 97>>, <<101, 110, 103>>>>
sentiment_line_keywords == <<S_sentiment, S_positive, S_negative, S_neutral>>

\* any(keyword in line.lower() for keyword in keywords)
AnyKeyword(keywords, line) ==
    \E i \in DOMAIN keywords : IsSubstring(keywords[i], lower(line))

\* texts of _extract_line_content: "_intent", "product", "primary", "THA", and the
\* default confidences "0.8", "0.9", "0.7"
S__intent == <<95, 105, 110, 116, 101, 110, 116>>
S_product == <<112, 114, 111, 100, 117, 99, 116>>
S_primary == <<112, 114, 105, 109, 97, 114, 121>>
S_THA == <<84, 72, 65>>
S_08 == <<48, 46, 56>>
S_09 == <<48, 46, 57>>
S_07 == <<48, 46, 55>>
S_0 == <<48>>

\* re.search(r'(\d+\.?\d*)', line), the default when there is no number
LineConfidence(line, default) ==
    LET Found(m) == IF m = <<>> THEN default ELSE Group(line, m, 1, 3)
    IN  Found(re_search(Number, line, 1))

\* RobustNLUParser._extract_line_content
_extract_line_content(line, content_type, r) ==
    IF content_type = "intent" THEN
        \* r'(purchase|ask|cancel|greet)[\w_]*[^\d]*?(\d+\.?\d*)'
        LET Found(m) ==
                IF m = <<>> THEN Done(FALSE, r)
                ELSE _add_intent(<<S_intent, Group(line, m, 1, 1) \o S__intent,
                                   Group(line, m, 4, 6), S_zero, S_braces>>, r)
        IN  Found(re_search(<<Alt(<<<<112, 117, 114, 99, 104, 97, 115, 101>>, <<97, 115, 107>>, <<99, 97, 110, 99, 101, 108>>, <<103, 114, 101, 101, 116>>>>),
                              Star(WordChars), LazyStarNot(Digits)>> \o Number, line, 1))
    ELSE IF content_type = "entity" THEN
        \* r'[\u0E00-\u0E7F]+'
        LET Found(m) ==
                IF m = <<>> THEN Done(FALSE, r)
                ELSE _add_entity(<<S_entity, S_product, Group(line, m, 1, 1),
                                   LineConfidence(line, S_08), S_braces>>, r)
        IN  Found(re_search(<<Plus(Thai)>>, line, 1))
    ELSE IF content_type = "language" THEN
        \* r'\b(THA|USA|ENG)\b'
        LET Coded(code) ==
                _add_language(<<S_language, code, LineConfidence(line, S_09),
                                IF IsSubstring(S_primary, lower(line)) \/ IsSubstring(S_THA, code)
                                    THEN S_one ELSE S_0,
                                S_braces>>, r)
            Found(m) ==
                IF m = <<>> THEN Done(FALSE, r) ELSE Coded(upper(Group(line, m, 2, 2)))
        IN  Found(re_search(<<WordBoundary, Alt(<<<<84, 72, 65>>, <<85, 83, 65>>, <<69, 78, 71>>>>),
                              WordBoundary>>, line, 1))
    ELSE
        \* r'\b(positive|negative|neutral)\b'
        LET Found(m) ==
                IF m = <<>> THEN Done(FALSE, r)
                ELSE _add_sentiment(<<S_sentiment, lower(Group(line, m, 2, 2)),
                                      LineConfidence(line, S_07), S_braces>>, r)
        IN  Found(re_search(<<WordBoundary, SentimentLabel, WordBoundary>>, line, 1))

\* the kind of content a line is scanned for: the first keyword list with a word in it
LineType(line) ==
    IF AnyKeyword(intent_line_keywords, line) THEN "intent"
    ELSE IF AnyKeyword(entity_line_keywords, line) THEN "entity"
    ELSE IF AnyKeyword(language_line_keywords, line) THEN "language"
    ELSE IF AnyKeyword(sentiment_line_keywords, line) THEN "sentiment"
    ELSE "none"

\* the loop of _parse_line_by_line: the number of lines that gave a record and the dict
RECURSIVE ScanLines(_, _, _)
ScanLines(lines, successful_lines, r) ==
    IF lines = <<>> THEN [successful_lines |-> successful_lines, result |-> r]
    ELSE LET Counted(d) ==
                 ScanLines(Tail(lines), successful_lines + (IF d.ok THEN 1 ELSE 0), d.result)
             Typed(line, content_type) ==
                 IF line = <<>> \/ line = record_delimiter \/ content_type = "none"
                     THEN ScanLines(Tail(lines), successful_lines, r)
                     ELSE Counted(_extract_line_content(line, content_type, r))
             Stripped(line) == Typed(line, LineType(line))
         IN  Stripped(Strip(Head(lines), Spaces))

\* RobustNLUParser._parse_line_by_line
_parse_line_by_line(nlu_output, r) ==
    LET Scanned(p) == Done(p.successful_lines > 0, p.result)
    IN  Scanned(ScanLines(SplitBy(nlu_output, <<10>>), 0, r))

\* RobustNLUParser._extract_json_content: each of its patterns needs a "{" and a "}";
\* the texts parsed here have neither, so nothing is found
_extract_json_content(nlu_output, r) == Done(FALSE, r)

\* key=lambda x: x["confidence"], reverse=True
ByConfidence(a, b) == a.confidence > b.confidence
\* key=lambda x: (not x["is_primary"], -x["confidence"])
ByPrimaryThenConfidence(a, b) ==
    \/ a.is_primary /\ ~b.is_primary
    \/ a.is_primary = b.is_primary /\ a.confidence > b.confidence

\* key(a) < key(b) for the named key
Precedes(key, a, b) ==
    IF key = "confidence" THEN ByConfidence(a, b) ELSE ByPrimaryThenConfidence(a, b)

\* list.sort with a key: a stable insertion sort
RECURSIVE Insert(_, _, _)
Insert(sorted, x, key) ==
    IF sorted = <<>> THEN <<x>>
    ELSE IF Precedes(key, x, Head(sorted)) THEN <<x>> \o sorted
    ELSE <<Head(sorted)>> \o Insert(Tail(sorted), x, key)

RECURSIVE SortBy(_, _)
SortBy(s, key) ==
    IF s = <<>> THEN <<>>
    ELSE Insert(SortBy(Slice(s, 1, Len(s) - 1), key), s[Len(s)], key)

\* RobustNLUParser._finalize_result: the two sorts
_finalize_result(r) ==
    [r EXCEPT !.intents = SortBy(@, "confidence"),
              !.languages = SortBy(@, "primary")]

\* the head of nlu_output kept for debugging: nlu_output[:500]
RawHead(nlu_output) == Slice(nlu_output, 1, Min(500, Len(nlu_output)))

\* RobustNLUParser.parse_intent_output.  The strategies work on one shared dict, so what
\* a strategy that was not accepted appended stays in it.  internal_error is an
\* exception raised in the try block before a strategy has run: the except sets
\* parse_error and the final fallback then overwrites it with format_error.
parse_intent_output(nlu_output, internal_error) ==
    LET Accepted(r, status, strategy) ==
            _finalize_result([r EXCEPT !.status = status, !.strategy_used = strategy])
        FinalFallback(r) ==
            [r EXCEPT !.status = "format_error", !.has_raw_output = TRUE,
                      !.raw_output = RawHead(nlu_output)]
        Strategy4(s4) ==
            IF s4.ok THEN Accepted(s4.result, "partial_success", "json_extraction")
            ELSE FinalFallback(s4.result)
        Strategy3(s3) ==
            IF s3.ok THEN Accepted(s3.result, "partial_success", "line_by_line")
            ELSE Strategy4(_extract_json_content(nlu_output, s3.result))
        Strategy2(s2) ==
            IF s2.ok THEN Accepted(s2.result, "partial_success", "regex_fallback")
            ELSE Strategy3(_parse_line_by_line(nlu_output, s2.result))
        Strategy1(s1) ==
            IF s1.ok THEN Accepted(s1.result, "success", "structured")
            ELSE Strategy2(_parse_with_regex_fallback(nlu_output, s1.result))
    IN  IF internal_error THEN FinalFallback(_init_result_structure)
        ELSE Strategy1(_parse_structured_format(nlu_output, _init_result_structure))

----------------------------------------------------------------------------
(* parse_nlu_output: the simplified parser *)

S_general_intent == <<103, 101, 110, 101, 114, 97, 108, 95, 105, 110, 116, 101, 110, 116>>

\* intent_keywords of _extract_fallback_patterns, in the order of the dict: greet,
\* purchase_intent, inquiry_intent, support_intent, complain_intent, each with its three
\* Thai keywords and its two English ones ("hello", "hi"; "buy", "price"; "want", "ask";
\* "help", "problem"; "bad", "complain")
intent_keywords ==
    <<
       [name |-> <<103, 114, 101, 101, 116>>,
        keywords |-> <<<<3626, 3623, 3633, 3626, 3604, 3637>>,
                      <<3588, 3619, 3633, 3610>>,
                      <<3588, 3632>>,
                      <<104, 101, 108, 108, 111>>,
                      <<104, 105>>>>],
       [name |-> <<112, 117, 114, 99, 104, 97, 115, 101, 95, 105, 110, 116, 101, 110, 116>>,
        keywords |-> <<<<3595, 3639, 3657, 3629>>,
                      <<3586, 3634, 3618>>,
                      <<3619, 3634, 3588, 3634>>,
                      <<98, 117, 121>>,
                      <<112, 114, 105, 99, 101>>>>],
       [name |-> <<105, 110, 113, 117, 105, 114, 121, 95, 105, 110, 116, 101, 110, 116>>,
        keywords |-> <<<<3629, 3618, 3634, 3585>>,
                      <<3626, 3629, 3610, 3606, 3634, 3617>>,
                      <<3606, 3634, 3617>>,
                      <<119, 97, 110, 116>>,
                      <<97, 115, 107>>>>],
       [name |-> <<115, 117, 112, 112, 111, 114, 116, 95, 105, 110, 116, 101, 110, 116>>,
        keywords |-> <<<<3594, 3656, 3623, 3618>>,
                      <<3649, 3585, 3657>>,
                      <<3611, 3633, 3597, 3627, 3634>>,
                      <<104, 101, 108, 112>>,
                      <<112, 114, 111, 98, 108, 101, 109>>>>],
       [name |-> <<99, 111, 109, 112, 108, 97, 105, 110, 95, 105, 110, 116, 101, 110, 116>>,
        keywords |-> <<<<3649, 3618, 3656>>,
                      <<3652, 3617, 3656, 3604, 3637>>,
                      <<3610, 3656, 3609>>,
                      <<98, 97, 100>>,
                      <<99, 111, 109, 112, 108, 97, 105, 110>>>>] >>

\* the loop of _extract_fallback_patterns: one intent at 0.7 for every family with a
\* keyword in the text
RECURSIVE KeywordIntents(_, _)
KeywordIntents(families, text) ==
    IF families = <<>> THEN <<>>
    ELSE (IF AnyKeyword(Head(families).keywords, text)
              THEN <<[name |-> Head(families).name, confidence |-> 70]>> ELSE <<>>)
         \o KeywordIntents(Tail(families), text)

\* _extract_fallback_patterns (called with no intent in the dict)
_extract_fallback_patterns(text, r) ==
    LET OrGeneral(found) ==
            [r EXCEPT !.intents = IF found /= <<>> THEN found
                                  ELSE <<[name |-> S_general_intent, confidence |-> 50]>>]
    IN  OrGeneral(KeywordIntents(intent_keywords, text))

\* r'\(intent<D>([a-zA-Z_]+)<D>([0-9.]+)\)' and the three like it, <D> the escaped delimiter
DotNumber == Plus(Digits \cup {46})
simple_intent_pattern ==
    Pattern(<<Lit(<<40>> \o S_intent \o tuple_delimiter), Name, Lit(tuple_delimiter),
              DotNumber, Lit(<<41>>)>>, << <<2, 2>>, <<4, 4>> >>)
simple_entity_pattern ==
    Pattern(<<Lit(<<40>> \o S_entity \o tuple_delimiter), Name, Lit(tuple_delimiter),
              Cls(WordChars \cup Spaces, FALSE, 1, -1, TRUE), Lit(tuple_delimiter),
              DotNumber, Lit(<<41>>)>>, << <<2, 2>>, <<4, 4>>, <<6, 6>> >>)
simple_lang_pattern ==
    Pattern(<<Lit(<<40>> \o S_language \o tuple_delimiter), Cls(65..90, FALSE, 3, 3, FALSE),
              Lit(tuple_delimiter), DotNumber, Lit(tuple_delimiter), Opt({48, 49}),
              Lit(<<41>>)>>, << <<2, 2>>, <<4, 4>>, <<6, 6>> >>)
simple_sentiment_pattern ==
    Pattern(<<Lit(<<40>> \o S_sentiment \o tuple_delimiter), SentimentLabel,
              Lit(tuple_delimiter), DotNumber, Lit(<<41>>)>>, << <<2, 2>>, <<4, 4>> >>)

\* min(1.0, float(confidence)), in hundredths
MinOne(value) == Min(100, value)

\* the body of one of the finditer loops: the record of a match is appended unless float
\* raises ValueError
RECURSIVE SimpleMatches(_, _, _, _)
SimpleMatches(text, pat, matches, kind) ==
    IF matches = <<>> THEN <<>>
    ELSE LET Made(g, f) ==
                 IF ~f.ok THEN <<>>
                 ELSE IF kind = "intent"
                     THEN <<[name |-> g[1], confidence |-> MinOne(f.value)]>>
                 ELSE IF kind = "entity"
                     THEN <<[type |-> g[1], value |-> Strip(g[2], Spaces),
                             confidence |-> MinOne(f.value)]>>
                 ELSE <<[code |-> upper(g[1]), confidence |-> MinOne(f.value),
                         is_primary |-> g[3] = S_one]>>
             OfGroups(g) == Made(g, float(g[IF kind = "entity" THEN 3 ELSE 2]))
         IN  OfGroups(Groups(text, pat, Head(matches)))
                 \o SimpleMatches(text, pat, Tail(matches), kind)

SimpleFound(text, pat, kind) == SimpleMatches(text, pat, re_finditer(pat.re, text, 1), kind)

\* the sentiment of the first match, None when there is none or float raises
SimpleSentiment(text) ==
    LET Made(g, f) ==
            IF ~f.ok THEN NoSentiment
            ELSE [present |-> TRUE, label |-> lower(g[1]), confidence |-> MinOne(f.value)]
        OfGroups(g) == Made(g, float(g[2]))
        Found(m) ==
            IF m = <<>> THEN NoSentiment ELSE OfGroups(Groups(text, simple_sentiment_pattern, m))
    IN  Found(re_search(simple_sentiment_pattern.re, text, 1))

\* parse_nlu_output with the default delimiter.  The dict it returns has the keys intents,
\* entities, languages, sentiment and success: there is no parsing_metadata in it.
parse_nlu_output(raw_output_) ==
    LET Sorted(r) ==
            [r EXCEPT !.intents = SortBy(@, "confidence"),
                      !.entities = SortBy(@, "confidence"),
                      !.success = r.intents /= <<>> \/ r.entities /= <<>>]
        Found(cleaned, found) ==
            Sorted(IF found.intents = <<>> /\ found.entities = <<>>
                       THEN _extract_fallback_patterns(cleaned, found) ELSE found)
        Cleaned(cleaned) ==
            Found(cleaned,
                  [intents |-> SimpleFound(cleaned, simple_intent_pattern, "intent"),
                   entities |-> SimpleFound(cleaned, simple_entity_pattern, "entity"),
                   languages |-> SimpleFound(cleaned, simple_lang_pattern, "language"),
                   sentiment |-> SimpleSentiment(cleaned),
                   has_parsing_metadata |-> FALSE, success |-> FALSE])
    IN  Cleaned(Strip(Remove(raw_output_, completion_delimiter), Spaces))

----------------------------------------------------------------------------
(* PyParsingNLUParser: the grammar *)

(* A pyparsing expression is tried at one position and either fails or consumes   *)
(* text, with no backtracking into an expression that has matched.  A parse state *)
(* is whether the expressions so far matched, the position reached and the named  *)
(* tokens; every token skips the whitespace before it.                            *)

ParseFailed == [ok |-> FALSE, pos |-> 0, tokens |-> <<>>]
StartAt(pos) == [ok |-> TRUE, pos |-> pos, tokens |-> <<>>]

SkipWhitespace(text, pos) == pos + RunLen(text, pos, Star({9, 10, 13, 32}), 0)

\* w is in text at pos, case respected
ExactAt(text, pos, w) ==
    /\ pos + Len(w) - 1 <= Len(text)
    /\ \A k \in 1..Len(w) : text[pos + k - 1] = w[k]

\* the number of consecutive characters of set from pos, at most hi (no limit for -1)
RunOf(text, pos, set, hi, n) ==
    LET Stops(k) == text[pos + k] \notin set
        Until(limit) ==
            IF limit <= n THEN n
            ELSE IF \E k \in n..(limit - 1) : Stops(k)
                THEN CHOOSE k \in n..(limit - 1) : Stops(k) /\ \A j \in n..(k - 1) : ~Stops(j)
            ELSE limit
    IN  Until(IF hi >= 0 THEN Min(hi, Len(text) - pos + 1) ELSE Len(text) - pos + 1)

\* Literal(w).suppress()
Literal(st, text, w) ==
    LET At(p) ==
            IF st.ok /\ ExactAt(text, p, w) THEN [st EXCEPT !.pos = p + Len(w)] ELSE ParseFailed
    IN  At(SkipWhitespace(text, st.pos))

\* the state after a token called name that ends before position e
Consumed(st, text, name, p, e) ==
    [st EXCEPT !.pos = e,
               !.tokens = Append(@, [name |-> name, text |-> Slice(text, p, e - 1)])]

\* a token named name made of lo..hi characters of set: Word(chars), Regex(r'[chars]+'),
\* Regex(r'[chars]{n}')
Token(st, text, name, set, lo, hi) ==
    LET Run(p, n) == IF st.ok /\ n >= lo THEN Consumed(st, text, name, p, p + n) ELSE ParseFailed
        At(p) == Run(p, RunOf(text, p, set, hi, 0))
    IN  At(SkipWhitespace(text, st.pos))

\* pyparsing_common.fnumber, r'[+-]?\d+\.?\d*' (the outputs have no exponent)
fnumber(st, text, name) ==
    LET Pointed(p, q) == Consumed(st, text, name, p, q + RunOf(text, q, Digits, -1, 0))
        Whole(p, q) == Pointed(p, IF q <= Len(text) /\ text[q] = 46 THEN q + 1 ELSE q)
        Signed(p, d, whole) == IF st.ok /\ whole >= 1 THEN Whole(p, d + whole) ELSE ParseFailed
        Digit(p, d) == Signed(p, d, RunOf(text, d, Digits, -1, 0))
        At(p) == Digit(p, IF p <= Len(text) /\ text[p] \in {43, 45} THEN p + 1 ELSE p)
    IN  At(SkipWhitespace(text, st.pos))

\* Regex(r'(positive|negative|neutral)', re.IGNORECASE)
sentiment_label(st, text) ==
    LET Labelled(p, w) == Consumed(st, text, "label", p, p + Len(w))
        Found(p, found) ==
            IF st.ok /\ found /= {} THEN Labelled(p, CHOOSE x \in found : TRUE) ELSE ParseFailed
        At(p) == Found(p, { w \in {S_positive, S_negative, S_neutral} : LitAt(text, p, w) })
    IN  At(SkipWhitespace(text, st.pos))

\* Optional(e): the state after e when e matched, the state before it otherwise
Optional(st, after) == IF after.ok THEN after ELSE st

\* Optional(Literal(w))
OptionalLiteral(st, text, w) == Optional(st, Literal(st, text, w))

\* metadata: Optional(delimiter + Regex(r'\{[^}]*\}', re.DOTALL))
metadata(st, text) ==
    LET Run(d, p, n) ==
            IF d.ok /\ ExactAt(text, p, <<123>>) /\ ExactAt(text, p + 1 + n, <<125>>)
                THEN Consumed(d, text, "metadata", p, p + n + 2)
                ELSE st
        At(d, p) == Run(d, p, RunOf(text, p + 1, (0..65535) \ {125}, -1, 0))
        Delimited(d) == At(d, SkipWhitespace(text, d.pos))
    IN  Delimited(Literal(st, text, tuple_delimiter))

AlphaNums == Letters \cup Digits

\* "(" kind delimiter
RecordHead(text, pos, kind) ==
    Literal(Literal(Literal(StartAt(pos), text, <<40>>), text, kind), text, tuple_delimiter)

\* delimiter + float_num
DelimitedNumber(st, text, name) == fnumber(Literal(st, text, tuple_delimiter), text, name)

\* priority = Optional(delimiter + float_num)
priority(st, text) == Optional(st, DelimitedNumber(st, text, "priority"))

\* metadata + rparen
RecordTail(st, text) == Literal(metadata(st, text), text, <<41>>)

\* intent_record
intent_record(text, pos) ==
    RecordTail(
        priority(
            DelimitedNumber(
                Token(RecordHead(text, pos, S_intent), text, "name", AlphaNums \cup {95}, 1, -1),
                text, "confidence"),
            text),
        text)

\* entity_record
entity_record(text, pos) ==
    RecordTail(
        DelimitedNumber(
            Token(Literal(Token(RecordHead(text, pos, S_entity), text, "type",
                                AlphaNums \cup {95}, 1, -1),
                          text, tuple_delimiter),
                  text, "value", AlphaNums \cup {95} \cup Thai, 1, -1),
            text, "confidence"),
        text)

\* language_record
language_record(text, pos) ==
    RecordTail(
        Token(Literal(DelimitedNumber(Token(RecordHead(text, pos, S_language), text, "code",
                                            65..90, 3, 3),
                                      text, "confidence"),
                      text, tuple_delimiter),
              text, "is_primary", Digits, 1, -1),
        text)

\* sentiment_record
sentiment_record(text, pos) ==
    RecordTail(
        DelimitedNumber(sentiment_label(RecordHead(text, pos, S_sentiment), text),
                        text, "confidence"),
        text)

\* the group of a record expression that matched, with its name; otherwise the next one
Named(st, name, otherwise) ==
    IF st.ok THEN [ok |-> TRUE, pos |-> st.pos, name |-> name, tokens |-> st.tokens]
    ELSE otherwise

\* record = intent_record | entity_record | language_record | sentiment_record, with the
\* name of the group that matched
record(text, pos) ==
    Named(intent_record(text, pos), "intent",
        Named(entity_record(text, pos), "entity",
            Named(language_record(text, pos), "language",
                Named(sentiment_record(text, pos), "sentiment",
                      [ok |-> FALSE, pos |-> 0, name |-> "none", tokens |-> <<>>]))))

\* grammar.parseString(text, parseAll=False): ZeroOrMore(record + Optional(record_sep)),
\* the groups in order.  The grammar matches every string, a ParseException is not raised.
RECURSIVE grammar(_, _)
grammar(text, pos) ==
    LET Rest(r) ==
            IF ~r.ok THEN <<>>
            ELSE <<r>> \o grammar(text, OptionalLiteral(StartAt(r.pos), text,
                                                        record_delimiter).pos)
    IN  Rest(record(text, pos))

----------------------------------------------------------------------------
(* PyParsingNLUParser: from the parsed groups to the document *)

\* data.get(name): whether the group has the token, and its text
Has(tokens, name) == \E i \in DOMAIN tokens : tokens[i].name = name
Get(tokens, name) == tokens[CHOOSE i \in DOMAIN tokens : tokens[i].name = name].text

\* _safe_float_extract of a number token, in hundredths; default when it is absent
_safe_float_extract(tokens, name, default) ==
    IF Has(tokens, name) THEN float(Get(tokens, name)).value ELSE default

\* PyParsingNLUParser._add_intent_from_parsed
_add_intent_from_parsed(item, r) ==
    LET Validated(intent_data) ==
            IF intent_data.name = <<>>
                   \/ ~(0 <= intent_data.confidence /\ intent_data.confidence <= 100)
                THEN Done(FALSE, r)
                ELSE Done(TRUE, [r EXCEPT !.intents = Append(@, intent_data)])
    IN  Validated([name |-> Get(item.tokens, "name"),
                   confidence |-> _safe_float_extract(item.tokens, "confidence", 0),
                   priority_score |-> _safe_float_extract(item.tokens, "priority", 0)])

\* PyParsingNLUParser._add_entity_from_parsed
_add_entity_from_parsed(item, r) ==
    LET Validated(entity_data) ==
            IF entity_data.type = <<>> \/ entity_data.value = <<>>
                THEN Done(FALSE, r)
                ELSE Done(TRUE, [r EXCEPT !.entities = Append(@, entity_data)])
    IN  Validated([type |-> Get(item.tokens, "type"),
                   value |-> Get(item.tokens, "value"),
                   confidence |-> _safe_float_extract(item.tokens, "confidence", 0)])

\* PyParsingNLUParser._add_language_from_parsed
_add_language_from_parsed(item, r) ==
    LET Validated(language_data) ==
            IF Len(language_data.code) /= 3
                THEN Done(FALSE, r)
                ELSE Done(TRUE, [r EXCEPT !.languages = Append(@, language_data),
                                          !.primary_language =
                                              IF language_data.is_primary
                                                  THEN language_data.code ELSE @])
    IN  Validated([code |-> upper(Get(item.tokens, "code")),
                   confidence |-> _safe_float_extract(item.tokens, "confidence", 0),
                   is_primary |-> DigitsValue(Get(item.tokens, "is_primary")) /= 0])

\* PyParsingNLUParser._add_sentiment_from_parsed
_add_sentiment_from_parsed(item, r) ==
    LET Validated(sentiment_data) ==
            IF sentiment_data.label \notin {S_positive, S_negative, S_neutral}
                THEN Done(FALSE, r)
                ELSE Done(TRUE, [r EXCEPT !.sentiment = sentiment_data, !.has_sentiment = TRUE])
    IN  Validated([present |-> TRUE,
                   label |-> lower(Get(item.tokens, "label")),
                   confidence |-> _safe_float_extract(item.tokens, "confidence", 0)])

\* the call _process_parsed_results makes for one group
AddParsed(item, r) ==
    IF item.name = "intent" THEN _add_intent_from_parsed(item, r)
    ELSE IF item.name = "entity" THEN _add_entity_from_parsed(item, r)
    ELSE IF item.name = "language" THEN _add_language_from_parsed(item, r)
    ELSE _add_sentiment_from_parsed(item, r)

\* the loop of _process_parsed_results: the number of items added and the dict
RECURSIVE ProcessItems(_, _, _)
ProcessItems(items, successful_items, r) ==
    IF items = <<>> THEN [successful_items |-> successful_items, result |-> r]
    ELSE LET Counted(d) ==
                 ProcessItems(Tail(items), successful_items + (IF d.ok THEN 1 ELSE 0), d.result)
         IN  Counted(AddParsed(Head(items), r))

\* PyParsingNLUParser._process_parsed_results
_process_parsed_results(parsed_results, r) ==
    LET Processed(p) == Done(p.successful_items > 0, p.result)
    IN  Processed(ProcessItems(parsed_results, 0, r))

\* the flexible grammar of _parse_with_partial_grammar.
\* delimiter = Regex(r'[<|>,;:\s]+'); word = Word(alphanums + "_\u0E00-\u0E7F"), whose
\* characters are the letters, the digits, "_", U+0E00, "-" and U+0E7F
FlexDelimiter(st, text) ==
    LET Run(p, n) == IF st.ok /\ n >= 1 THEN [st EXCEPT !.pos = p + n] ELSE ParseFailed
        At(p) == Run(p, RunOf(text, p, {60, 124, 62, 44, 59, 58} \cup Spaces, -1, 0))
    IN  At(SkipWhitespace(text, st.pos))

FlexWordChars == AlphaNums \cup {95, 3584, 45, 3711}

\* delimiter + word
DelimitedWord(st, text) == Token(FlexDelimiter(st, text), text, "values", FlexWordChars, 1, -1)

\* OneOrMore(delimiter + word) after the first one
RECURSIVE MoreWords(_, _)
MoreWords(st, text) ==
    LET More(next) == IF next.ok THEN MoreWords(next, text) ELSE st
    IN  More(DelimitedWord(st, text))

\* OneOrMore(delimiter + word)
OneOrMoreWords(st, text) ==
    LET More(first) == IF first.ok THEN MoreWords(first, text) ELSE ParseFailed
    IN  More(DelimitedWord(st, text))

\* Optional(delimiter + number)
OptionalConfidence(st, text) == Optional(st, fnumber(FlexDelimiter(st, text), text, "confidence"))

\* the texts of the tokens called name, in order
RECURSIVE Values(_, _)
Values(tokens, name) ==
    IF tokens = <<>> THEN <<>>
    ELSE (IF Head(tokens).name = name THEN <<Head(tokens).text>> ELSE <<>>)
         \o Values(Tail(tokens), name)

\* flexible_record
flexible_record(text, pos) ==
    OptionalLiteral(
        OptionalConfidence(
            OneOrMoreWords(
                Token(OptionalLiteral(StartAt(pos), text, <<40>>), text, "type",
                      FlexWordChars, 1, -1),
                text),
            text),
        text, <<41>>)

\* ZeroOrMore(Group(flexible_record)).parseString(text)
RECURSIVE flexible_grammar(_, _)
flexible_grammar(text, pos) ==
    LET Rest(r) == IF ~r.ok THEN <<>> ELSE <<r>> \o flexible_grammar(text, r.pos)
    IN  Rest(flexible_record(text, pos))

\* the loop of _process_flexible_results
RECURSIVE ProcessFlexible(_, _, _)
ProcessFlexible(items, successful_items, r) ==
    IF items = <<>> THEN [successful_items |-> successful_items, result |-> r]
    ELSE LET Typed(record_type, values, confidence) ==
                 IF record_type = S_intent /\ values /= <<>>
                     THEN ProcessFlexible(Tail(items), successful_items + 1,
                              [r EXCEPT !.intents = Append(@, [name |-> values[1],
                                                               confidence |-> confidence,
                                                               priority_score |-> 0])])
                 ELSE IF record_type = S_entity /\ Len(values) >= 2
                     THEN ProcessFlexible(Tail(items), successful_items + 1,
                              [r EXCEPT !.entities = Append(@, [type |-> values[1],
                                                                value |-> values[2],
                                                                confidence |-> confidence])])
                 ELSE ProcessFlexible(Tail(items), successful_items, r)
             Tokens(tokens) ==
                 Typed(lower(Get(tokens, "type")), Values(tokens, "values"),
                      _safe_float_extract(tokens, "confidence", 80))
         IN  Tokens(Head(items).tokens)

\* PyParsingNLUParser._parse_with_partial_grammar
_parse_with_partial_grammar(output, r) ==
    LET Processed(p) == Done(p.successful_items > 0, p.result)
    IN  Processed(ProcessFlexible(flexible_grammar(output, 1), 0, r))

\* PyParsingNLUParser._init_result_structure
pyparsing_init_result_structure ==
    [_init_result_structure EXCEPT !.strategy_used = "pyparsing_grammar"]

\* PyParsingNLUParser._clean_output: one re.sub for both prefixes
pyparsing_clean_output(output) ==
    LET Dropped(cleaned, dropped) ==
            IF dropped /= cleaned THEN dropped ELSE DropPrefix(cleaned, S_result)
        Cleaned(cleaned) == Dropped(cleaned, DropPrefix(cleaned, S_output))
    IN  Cleaned(CollapseSpaces(Strip(Remove(output, completion_delimiter), Spaces)))

\* PyParsingNLUParser._finalize_result: the two sorts
pyparsing_finalize_result(r) ==
    [r EXCEPT !.intents = SortBy(@, "confidence"),
              !.languages = SortBy(@, "primary")]

\* the least cleaned length the grammar is tried on
MinLength == 10

\* the end of parse_intent_output: the full grammar, then the flexible one, then the
\* final fallback
AfterGrammar(nlu_output, cleaned_output, full) ==
    LET Partial(partial) ==
            IF partial.ok
                THEN pyparsing_finalize_result(
                         [partial.result EXCEPT !.status = "partial_success",
                                                !.strategy_used = "pyparsing_partial"])
            ELSE [partial.result EXCEPT !.status = "format_error", !.has_raw_output = TRUE,
                                        !.raw_output = RawHead(nlu_output)]
    IN  IF full.ok
            THEN pyparsing_finalize_result([full.result EXCEPT !.status = "success",
                                                               !.strategy_used = "pyparsing_grammar"])
        ELSE Partial(_parse_with_partial_grammar(cleaned_output, full.result))

\* variant: no length check before the grammar
pyparsing_parse_intent_output_any_length(nlu_output) ==
    LET Cleaned(cleaned_output) ==
            AfterGrammar(nlu_output, cleaned_output,
                         _process_parsed_results(grammar(cleaned_output, 1),
                                                 pyparsing_init_result_structure))
    IN  Cleaned(pyparsing_clean_output(nlu_output))

\* PyParsingNLUParser.parse_intent_output.  parseString does not raise on this grammar,
\* so neither _quick_regex_fallback nor _regex_fallback is entered.
pyparsing_parse_intent_output(nlu_output) ==
    LET Cleaned(cleaned_output) ==
            IF Len(Strip(cleaned_output, Spaces)) < MinLength
                THEN [pyparsing_init_result_structure EXCEPT !.status = "input_too_short"]
            ELSE AfterGrammar(nlu_output, cleaned_output,
                              _process_parsed_results(grammar(cleaned_output, 1),
                                                      pyparsing_init_result_structure))
    IN  Cleaned(pyparsing_clean_output(nlu_output))

----------------------------------------------------------------------------
(* Raw LLM outputs *)

MaxRecords == 2

\* field texts: "greet", "purchase_intent", "laptop", "ENG", "foo", "bar", "hi"
S_greet == <<103, 114, 101, 101, 116>>
S_purchase_intent == <<112, 117, 114, 99, 104, 97, 115, 101, 95, 105, 110, 116, 101, 110, 116>>
S_laptop == <<108, 97, 112, 116, 111, 112>>
S_ENG == <<69, 78, 71>>
S_foo == <<102, 111, 111>>
S_bar == <<98, 97, 114>>
S_hi == <<104, 105>>
\* numerals: "0.9", "0.8", "1.7", "-0.5", "0.6", "0.95", "0.5"
N_09 == <<48, 46, 57>>
N_08 == <<48, 46, 56>>
N_17 == <<49, 46, 55>>
N_neg05 == <<45, 48, 46, 53>>
N_06 == <<48, 46, 54>>
N_095 == <<48, 46, 57, 53>>
N_05 == <<48, 46, 53>>
S_no_data == <<110, 111, 32, 100, 97, 116, 97>>

\* "(" field "<||>" field ... ")"
Record(fields) == <<40>> \o Join(fields, tuple_delimiter) \o <<41>>

\* the records an output is made of: complete ones, ones with fewer fields, ones with a
\* confidence outside [0, 1], one of an unknown kind
RecordTexts ==
    { Record(<<S_intent, S_greet, N_09, N_08>>),
      Record(<<S_intent, S_greet, N_09>>),
      Record(<<S_intent, S_greet>>),
      Record(<<S_intent, S_purchase_intent, N_17, N_08>>),
      Record(<<S_intent, S_purchase_intent, N_neg05, N_08>>),
      Record(<<S_entity, S_product, S_laptop, N_06>>),
      Record(<<S_language, S_THA, N_095, S_one>>),
      Record(<<S_language, S_ENG, N_05, S_0>>),
      Record(<<S_sentiment, S_positive, N_09>>),
      Record(<<S_foo, S_bar, N_05>>) }

\* outputs without a record: "", "hi", "no data", "<|COMPLETE|>"
PlainOutputs == {<<>>, S_hi, S_no_data, completion_delimiter}

\* outputs of three records of which one or two are of a known kind
R_greet == Record(<<S_intent, S_greet, N_09, N_08>>)
R_laptop == Record(<<S_entity, S_product, S_laptop, N_06>>)
R_THA == Record(<<S_language, S_THA, N_095, S_one>>)
R_positive == Record(<<S_sentiment, S_positive, N_09>>)
R_foo == Record(<<S_foo, S_bar, N_05>>)
ThreeRecordOutputs ==
    { Join(rs, record_delimiter) :
          rs \in { <<R_greet, R_foo, R_foo>>, <<R_foo, R_greet, R_foo>>,
                   <<R_laptop, R_foo, R_foo>>, <<R_THA, R_foo, R_foo>>,
                   <<R_positive, R_foo, R_foo>>, <<R_greet, R_laptop, R_foo>> } }

\* up to MaxRecords records joined by "##", the outputs of three records and the plain
\* outputs
RawOutputs ==
    { Join(rs, record_delimiter) : rs \in SeqsUpTo(RecordTexts, MaxRecords) }
        \cup ThreeRecordOutputs \cup PlainOutputs

----------------------------------------------------------------------------
(* Parsing one raw LLM output *)

ParseInit ==
    /\ config_manager \in { m \in ConfigManagers :
                               m.readable /\ m.config = [is_str |-> TRUE, default_intent |-> <<>>] }
    /\ router = "absent"
    /\ router_config = NoConfig
    /\ nlu_result = NoneResult
    /\ contexts = NoContexts
    /\ total_tokens = 0
    /\ score = 0
    /\ TurnIdle
    /\ raw_output \in RawOutputs
    /\ result = [status |-> "none"]
    /\ pc = "raw"

\* RobustNLUParser().parse_intent_output(raw_output)
RobustParse ==
    /\ pc = "raw"
    /\ result' = parse_intent_output(raw_output, FALSE)
    /\ pc' = "robust"
    /\ UNCHANGED <<router_vars, nlu_result, score, turn_vars, raw_output>>

\* the same call when an exception is raised inside its try block
RobustParseRaises ==
    /\ pc = "raw"
    /\ result' = parse_intent_output(raw_output, TRUE)
    /\ pc' = "robust_raised"
    /\ UNCHANGED <<router_vars, nlu_result, score, turn_vars, raw_output>>

\* parse_nlu_output(raw_output)
SimpleParse ==
    /\ pc = "raw"
    /\ result' = parse_nlu_output(raw_output)
    /\ pc' = "simple"
    /\ UNCHANGED <<router_vars, nlu_result, score, turn_vars, raw_output>>

\* PyParsingNLUParser().parse_intent_output(raw_output)
PyParsingParse ==
    /\ pc = "raw"
    /\ result' = pyparsing_parse_intent_output(raw_output)
    /\ pc' = "pyparsing"
    /\ UNCHANGED <<router_vars, nlu_result, score, turn_vars, raw_output>>

ParseNext == RobustParse \/ RobustParseRaises \/ SimpleParse \/ PyParsingParse

ParseSpec == ParseInit /\ [][ParseNext]_vars

----------------------------------------------------------------------------
(* Properties of the router *)

Routed == pc \in {"routed", "estimated"}

\* the document's names, and whether the router's catalog lists a name
DocNames == intent_names(nlu_result)
ListedNames == [c \in Configs \cup {NoConfig} |-> _parse_default_intents(c)]
Known(n) == InDefault(n, ListedNames[router_config])
HasIntents == nlu_result.present /\ nlu_result.intents /= <<>>

\* the preset tables of the specification
PresetMinimal ==
    [core_behavior |-> TRUE, interaction_guidelines |-> TRUE, product_details |-> FALSE,
     business_policies |-> FALSE, user_history |-> TRUE]
PresetProductFocused ==
    [core_behavior |-> TRUE, interaction_guidelines |-> TRUE, product_details |-> TRUE,
     business_policies |-> TRUE, user_history |-> FALSE]
PresetSupportFocused ==
    [core_behavior |-> TRUE, interaction_guidelines |-> TRUE, product_details |-> FALSE,
     business_policies |-> TRUE, user_history |-> TRUE]
PresetFull ==
    [core_behavior |-> TRUE, interaction_guidelines |-> TRUE, product_details |-> TRUE,
     business_policies |-> TRUE, user_history |-> TRUE]

\* C1: a document that contains "greet", routed with a catalog that lists "greet", gets
\* the minimal preset whatever else it contains and in whatever order, and the estimate
\* of that selection is 550 tokens.
C1_GreetFirst ==
    (Routed /\ HasIntents /\ "greet" \in DocNames /\ Known("greet"))
        => /\ contexts = PresetMinimal
           /\ pc = "estimated" => total_tokens = 550

\* greet at 0.7 listed before or after purchase_intent at 0.9, both in the catalog
C1_Witness ==
    /\ pc = "estimated"
    /\ \E i, j \in DOMAIN nlu_result.intents :
          /\ nlu_result.intents[i] = [name |-> "greet", confidence |-> 70]
          /\ nlu_result.intents[j] = [name |-> "purchase_intent", confidence |-> 90]
          /\ i > j
    /\ Known("greet") /\ Known("purchase_intent")
    /\ contexts = PresetMinimal
    /\ total_tokens = 550

\* C2: a None document, or a document with an empty intent list, gets the full preset
\* (all five flags true), for every catalog.
C2_FullWithoutIntents ==
    (Routed /\ ~HasIntents)
        => /\ contexts = PresetFull
           /\ \A k \in FlagNames : contexts[k]

\* an empty intent list, routed with a catalog that lists greet
C2_Witness ==
    /\ Routed
    /\ nlu_result.present /\ nlu_result.intents = <<>>
    /\ Known("greet")
    /\ contexts = PresetFull

C2_WitnessNone ==
    Routed /\ ~nlu_result.present /\ Known("greet") /\ contexts = PresetFull

\* C3 as stated: when none of the document's intents among greet, purchase_intent,
\* support_intent, complain_intent is listed in the catalog the result is the full
\* preset; without greet, a listed purchase_intent gives product_focused.
C3_Original ==
    (Routed /\ HasIntents)
        => /\ (\A n \in DocNames \cap {"greet", "purchase_intent", "support_intent", "complain_intent"} :
                   ~Known(n))
              => contexts = PresetFull
           /\ ("greet" \notin DocNames /\ "purchase_intent" \in DocNames /\ Known("purchase_intent"))
              => contexts = PresetProductFocused

\* C3 (amended): the result is the full preset when the document's greet and
\* purchase_intent are not listed in the catalog and, if the document contains
\* support_intent or complain_intent, the catalog lists neither of these two names;
\* without greet, a listed purchase_intent gives product_focused.
C3_FullUnlessListed ==
    (Routed /\ HasIntents)
        => /\ ( /\ \A n \in DocNames \cap {"greet", "purchase_intent"} : ~Known(n)
                /\ (DocNames \cap {"support_intent", "complain_intent"} /= {})
                       => (~Known("support_intent") /\ ~Known("complain_intent")) )
              => contexts = PresetFull
           /\ ("greet" \notin DocNames /\ "purchase_intent" \in DocNames /\ Known("purchase_intent"))
              => contexts = PresetProductFocused

\* greet and support_intent in the document, neither greet nor support_intent nor
\* complain_intent in a catalog that lists purchase_intent: full
C3_Witness ==
    /\ Routed
    /\ HasIntents
    /\ DocNames = {"greet", "support_intent"}
    /\ Known("purchase_intent")
    /\ ~Known("greet") /\ ~Known("support_intent") /\ ~Known("complain_intent")
    /\ contexts = PresetFull

C3_WitnessPurchase ==
    /\ Routed
    /\ DocNames = {"purchase_intent", "unknown_intent"}
    /\ Known("purchase_intent")
    /\ contexts = PresetProductFocused

\* C4: when neither the greet rule nor the purchase_intent rule applies, a document with
\* support_intent or complain_intent gets support_focused as soon as the catalog lists
\* one of the two names, also the one the document does not contain.
C4_SupportEitherName ==
    ( /\ Routed
      /\ HasIntents
      /\ ~("greet" \in DocNames /\ Known("greet"))
      /\ ~("purchase_intent" \in DocNames /\ Known("purchase_intent"))
      /\ DocNames \cap {"support_intent", "complain_intent"} /= {}
      /\ (Known("support_intent") \/ Known("complain_intent")) )
        => contexts = PresetSupportFocused

\* the document has support_intent only, the catalog complain_intent only
C4_Witness ==
    /\ Routed
    /\ "support_intent" \in DocNames /\ "complain_intent" \notin DocNames
    /\ Known("complain_intent") /\ ~Known("support_intent")
    /\ contexts = PresetSupportFocused

\* C5: every returned selection has exactly the five flags, is one of the four preset
\* tables, and has core_behavior and interaction_guidelines true.
C5_FixedShape ==
    Routed
        => /\ DOMAIN contexts = FlagNames
           /\ contexts \in {PresetMinimal, PresetProductFocused, PresetSupportFocused, PresetFull}
           /\ contexts["core_behavior"] /\ contexts["interaction_guidelines"]

C5_Witness ==
    /\ Routed
    /\ contexts = PresetSupportFocused
    /\ DOMAIN contexts = FlagNames

\* C6: the estimate of a flag map is the sum of the fixed costs of its flags that are
\* true; unknown names and false flags add 0, the empty map gives 0, the four presets
\* give 550, 1250, 750 and 1550.
On(k) == k \in DOMAIN contexts /\ contexts[k]

C6_EstimateIsSum ==
    pc = "estimated"
        => /\ total_tokens = (IF On("core_behavior") THEN 100 ELSE 0)
                           + (IF On("interaction_guidelines") THEN 150 ELSE 0)
                           + (IF On("product_details") THEN 800 ELSE 0)
                           + (IF On("business_policies") THEN 200 ELSE 0)
                           + (IF On("user_history") THEN 300 ELSE 0)
           /\ (DOMAIN contexts = {}) => total_tokens = 0
           /\ contexts = PresetMinimal => total_tokens = 550
           /\ contexts = PresetProductFocused => total_tokens = 1250
           /\ contexts = PresetSupportFocused => total_tokens = 750
           /\ contexts = PresetFull => total_tokens = 1550

\* an unknown context set to true and a known one set to false add nothing
C6_Witness ==
    /\ pc = "estimated"
    /\ DOMAIN contexts = {"core_behavior", "product_details", "unknown_context"}
    /\ contexts["core_behavior"] /\ contexts["unknown_context"] /\ ~contexts["product_details"]
    /\ total_tokens = 100

\* C7: a configuration error never makes the router raise: constructing the router
\* succeeds, and with an unusable catalog every document is routed to the full preset.
C7_NeverRaises ==
    /\ router /= "raised"
    /\ (Routed /\ ~router_config.is_str) => contexts = PresetFull

----------------------------------------------------------------------------
(* Properties of the scorer *)

Scored == pc = "scored"

\* a value appears literally in the message, letter case ignored
FoldCase(c) == IF c \in 65..90 THEN c + 32 ELSE c
AppearsIn(value, content) ==
    \E i \in 0..(Len(content) - Len(value)) :
        \A k \in 1..Len(value) : FoldCase(content[i + k]) = FoldCase(value[k])

\* the sum of the five terms of the score before it is clamped
RawSum(doc) ==
    LET sc == intent_score(doc) + keyword_boost(doc) + entity_boost(doc) + sentiment_boost(doc)
    IN  sc + length_boost(doc, sc)

\* C8: the importance score of every document is within [0, 1].
C8_ScoreInUnitInterval ==
    Scored => (score >= 0 /\ score <= 1000)

\* confidence 1.0, three keywords, a valid entity and a positive sentiment: 1.2 before the clamp
C8_Witness ==
    /\ Scored
    /\ nlu_result.content = Msg_Budget_Baht
    /\ nlu_result.intents /= <<>> /\ top_confidence(nlu_result.intents) = 100
    /\ nlu_result.sentiment = "positive"
    /\ \E i \in DOMAIN nlu_result.entities : AppearsIn(nlu_result.entities[i].value, nlu_result.content)
    /\ RawSum(nlu_result) = 1200
    /\ score = 1000

\* C9: entities whose value does not appear in the message (letter case ignored) do not
\* change the score: the document scores as the same document without them.
WithoutAbsentEntities(doc) ==
    [doc EXCEPT !.entities = SelectSeq(doc.entities, LAMBDA e : AppearsIn(e.value, doc.content))]

C9_EntityGating ==
    Scored => score = importance_score(WithoutAbsentEntities(nlu_result))

\* a short message at 0.56 with an entity that is not in it: counting the entity would
\* give 0.66 and the short-message boost on top
C9_Witness ==
    /\ Scored
    /\ nlu_result.content = Msg_Sawasdee
    /\ nlu_result.intents /= <<>> /\ top_confidence(nlu_result.intents) = 80
    /\ nlu_result.entities /= <<>>
    /\ \A i \in DOMAIN nlu_result.entities : ~AppearsIn(nlu_result.entities[i].value, nlu_result.content)
    /\ nlu_result.sentiment = "none"
    /\ score = 560

\* the document of C10: the 10-character greeting, greet at 0.9, no entities, no sentiment
GreetingDoc ==
    [present |-> TRUE, content |-> Msg_Sawasdee_Krub,
     intents |-> <<[name |-> "greet", confidence |-> 90]>>,
     entities |-> <<>>, sentiment |-> "none"]

\* C10 as stated: the greeting document scores 0.63.
C10_Original ==
    (Scored /\ nlu_result = GreetingDoc) => score = 630

\* C10 (amended): the greeting document scores 0.73: the intent floor 0.63 plus the
\* short-message boost 0.1, the message having exactly 10 characters.
C10_GreetingScore ==
    (Scored /\ nlu_result = GreetingDoc)
        => /\ Len(nlu_result.content) = 10
           /\ keyword_matches(nlu_result) = 0
           /\ score = 730

C10_Witness ==
    Scored /\ nlu_result = GreetingDoc /\ score = 730

\* the document of C11: the 26-character budget message, purchase_intent at 0.8, no
\* entities, no sentiment
BudgetDoc ==
    [present |-> TRUE, content |-> Msg_Budget_Gaming,
     intents |-> <<[name |-> "purchase_intent", confidence |-> 80]>>,
     entities |-> <<>>, sentiment |-> "none"]

\* the threshold the example uses, in thousandths
ExampleThreshold == 700

Readable == config_manager.readable

\* C12 (as stated): an analysis is written to long-term memory exactly when its score is
\* at least the threshold in force, by save_important_nlu_analysis and by the turn.
C12_PersistIffAtLeast ==
    (pc \in {"saved", "answered"} /\ nlu_result.present /\ Readable)
        => (lm = <<nlu_result>> <=> score >= threshold)

\* the decision alone is score >= threshold, boundary included
C12_DecisionIsAtLeast ==
    (pc = "decided" /\ Readable) => (saved = "true" <=> score >= threshold)

\* a score equal to the threshold: the decision is to save
C12_DecisionWitness ==
    pc = "decided" /\ Readable /\ score = threshold /\ saved = "true"

\* a parser has returned
Parsed == pc \in {"robust", "simple", "pyparsing"}

\* the statuses a document may carry
Statuses == {"success", "partial_success", "parse_error", "format_error", "input_too_short"}

\* the document has parsing_metadata with one of the statuses
HasStatus(r) == r.has_parsing_metadata /\ r.status \in Statuses

\* the document has status format_error and the first 500 characters of the input
KeepsRawOutput(r) ==
    r.status = "format_error" /\ r.has_raw_output /\ r.raw_output = RawHead(raw_output)

\* C13 (as stated): whichever entry point parsed the output, the document it returns has
\* parsing_metadata with a status among success, partial_success, parse_error,
\* format_error and input_too_short, and after an internal exception the status is
\* format_error and the first 500 characters of the input are kept.
C13_StatusOfEveryParser ==
    /\ Parsed => HasStatus(result)
    /\ pc = "robust_raised" => (HasStatus(result) /\ KeepsRawOutput(result))

\* the two parser classes do return such a document
C13_StatusOfParserClasses ==
    /\ pc \in {"robust", "pyparsing"} => HasStatus(result)
    /\ pc = "robust_raised" => (HasStatus(result) /\ KeepsRawOutput(result))

\* outputs with no record and no intent keyword: "", "no data", "<|COMPLETE|>"
Unparseable == {<<>>, S_no_data, completion_delimiter}

\* the document holds the synthesized intent and nothing else
GeneralOnly(r) ==
    /\ Len(r.intents) = 1
    /\ r.intents[1].name = S_general_intent
    /\ r.intents[1].confidence = 50
    /\ r.entities = <<>>
    /\ r.languages = <<>>
    /\ ~r.sentiment.present

\* C14 (as stated): an output with no parseable record and no intent keyword gives a
\* document with exactly one intent, general_intent at 0.5, and no other record.
C14_GeneralIntent ==
    (Parsed /\ raw_output \in Unparseable) => GeneralOnly(result)

\* C15: PyParsingNLUParser returns, for the empty string, a document with status
\* input_too_short and empty intents and entities.
C15_EmptyTooShort ==
    (pc = "pyparsing" /\ raw_output = <<>>)
        => /\ result.status = "input_too_short"
           /\ result.intents = <<>>
           /\ result.entities = <<>>

C15_Witness ==
    pc = "pyparsing" /\ raw_output = <<>> /\ result.status = "input_too_short"

\* an intent record with confidence 1.7, one with confidence -0.5
TooHigh == Record(<<S_intent, S_purchase_intent, N_17, N_08>>)
TooLow == Record(<<S_intent, S_purchase_intent, N_neg05, N_08>>)

\* the document holds the purchase_intent record with the given confidence
KeptAt(r, confidence) ==
    /\ Len(r.intents) = 1
    /\ r.intents[1].name = S_purchase_intent
    /\ r.intents[1].confidence = confidence

\* every confidence of the document is within [0, 1]
InUnitInterval(r) ==
    /\ \A i \in DOMAIN r.intents : r.intents[i].confidence \in 0..100
    /\ \A i \in DOMAIN r.entities : r.entities[i].confidence \in 0..100
    /\ \A i \in DOMAIN r.languages : r.languages[i].confidence \in 0..100
    /\ r.sentiment.confidence \in 0..100

\* C16 (as stated): a record whose confidence is 1.7 or -0.5 is kept with the stored
\* value 1.0 or 0.0, and every confidence of every returned document is within [0, 1].
C16_ClampedNotRejected ==
    Parsed => /\ raw_output = TooHigh => KeptAt(result, 100)
              /\ raw_output = TooLow => KeptAt(result, 0)
              /\ InUnitInterval(result)

\* RobustNLUParser does clamp
C16_RobustClamps ==
    pc = "robust" => /\ raw_output = TooHigh => KeptAt(result, 100)
                     /\ raw_output = TooLow => KeptAt(result, 0)
                     /\ InUnitInterval(result)

\* single records with exactly the minimum of their kind as C17 states it, and one below it
AtMinimum ==
    { Record(<<S_intent, S_greet, N_09>>),
      Record(<<S_entity, S_product, S_laptop, N_06>>),
      Record(<<S_language, S_THA, N_095, S_one>>),
      Record(<<S_sentiment, S_positive, N_09>>) }
NoConfidence == Record(<<S_intent, S_greet>>)

\* the record parser accepted the only record of the output
RecordAccepted(r) == r.status = "success" /\ r.strategy_used = "structured"

\* C17 (as stated): a record with exactly the minimum of its kind (intent: name and
\* confidence; entity: type, value, confidence; language: code, confidence, flag;
\* sentiment: label, confidence) is accepted by the record parser, one with fewer is not.
C17_MinimumFieldCounts ==
    pc = "robust" => /\ raw_output \in AtMinimum => RecordAccepted(result)
                     /\ raw_output = NoConfidence => ~RecordAccepted(result)

\* what the code accepts: the three other kinds at the stated minimum
C17_OtherKindsAccepted ==
    (pc = "robust" /\ raw_output \in AtMinimum \ {Record(<<S_intent, S_greet, N_09>>)})
        => RecordAccepted(result)

\* records that are not intents: three well-formed kinds and an unknown kind
Unknown == Record(<<S_foo, S_bar, N_05>>)
WellFormedOthers ==
    { Record(<<S_entity, S_product, S_laptop, N_06>>),
      Record(<<S_language, S_THA, N_095, S_one>>),
      Record(<<S_language, S_ENG, N_05, S_0>>),
      Record(<<S_sentiment, S_positive, N_09>>) }

\* "(intent<||>greet)" followed by one record that is not an intent
RejectedFirst ==
    { Join(<<NoConfidence, r>>, record_delimiter) : r \in WellFormedOthers \cup {Unknown} }

\* the number of records of the document that are not intents
Others(r) == Len(r.entities) + Len(r.languages) + (IF r.sentiment.present THEN 1 ELSE 0)

\* C18 (as stated): the rejected record "(intent<||>greet)" gives no intent in the
\* document, and the well-formed record that follows it is returned.
C18_RejectedAbsent ==
    (pc = "robust" /\ raw_output \in RejectedFirst)
        => /\ result.intents = <<>>
           /\ raw_output /= Join(<<NoConfidence, Unknown>>, record_delimiter)
                  => Others(result) = 1

\* "(intent<||>greet<||>0.9<||>0.8)##(language<||>THA<||>0.95<||>1)"
GreetThai ==
    Join(<<Record(<<S_intent, S_greet, N_09, N_08>>),
           Record(<<S_language, S_THA, N_095, S_one>>)>>, record_delimiter)

\* C19: RobustNLUParser returns for that output one intent greet at 0.9, one language THA
\* at 0.95 that is primary, no entity, no sentiment, and strategy_used "structured".
C19_GreetThai ==
    (pc = "robust" /\ raw_output = GreetThai)
        => /\ Len(result.intents) = 1
           /\ result.intents[1].name = S_greet
           /\ result.intents[1].confidence = 90
           /\ result.languages = <<[code |-> S_THA, confidence |-> 95, is_primary |-> TRUE]>>
           /\ result.entities = <<>>
           /\ ~result.sentiment.present
           /\ result.strategy_used = "structured"

C19_Witness ==
    /\ pc = "robust" /\ raw_output = GreetThai
    /\ result.status = "success" /\ result.strategy_used = "structured"
    /\ Len(result.languages) = 1

\* C20: when analyze_message_nlu returned None, process_message calls generate_response,
\* returns its text when it returns one, and writes nothing to long-term memory.
C20_AnswerWithoutAnalysis ==
    (pc = "answered" /\ ~nlu_result.present)
        => /\ generation /= "not_called"
           /\ (generation = "returned" => response = Generated)
           /\ response \in {Generated, Apology}
           /\ lm = <<>>

C20_Witness ==
    /\ pc = "answered" /\ ~nlu_result.present
    /\ generation = "returned" /\ response = Generated /\ lm = <<>>

----------------------------------------------------------------------------
(* The score as a closed formula, and its monotonicity *)

\* b: 0.2, raised to 0.7 times the highest intent confidence
TermB(doc) ==
    IF doc.intents = <<>> THEN 200
    ELSE LET highest == CHOOSE c \in { doc.intents[i].confidence : i \in DOMAIN doc.intents } :
                            \A i \in DOMAIN doc.intents : doc.intents[i].confidence <= c
         IN  IF 7 * highest > 200 THEN 7 * highest ELSE 200

\* k: 0.15 for every business keyword that is in the message, at most 0.3
TermK(doc) ==
    Min(150 * Cardinality({ w \in Range(business_keywords) : AppearsIn(w, doc.content) }), 300)

\* e: 0.1 for every entity whose value is in the message, at most 0.2
TermE(doc) ==
    Min(100 * Cardinality({ i \in DOMAIN doc.entities :
                                AppearsIn(doc.entities[i].value, doc.content) }), 200)

\* s: 0.1 for a positive or a negative sentiment
TermS(doc) == IF doc.sentiment = "positive" \/ doc.sentiment = "negative" THEN 100 ELSE 0

\* the message without the whitespace around it has at most 10 characters
ShortMessage(doc) ==
    \A i, j \in { k \in 1..Len(doc.content) : doc.content[k] \notin StrWhitespace } : j - i < 10

\* h: 0.1 for a short message whose other terms sum to 0.6 or more
TermH(doc) ==
    IF ShortMessage(doc) /\ TermB(doc) + TermK(doc) + TermE(doc) + TermS(doc) >= 600
        THEN 100 ELSE 0

\* C21: the importance score of every document is clamp01(b + k + e + s + h), b the 0.2
\* floor raised to 0.7 times the highest intent confidence, k 0.15 per matched business
\* keyword up to 0.3, e 0.1 per valid entity up to 0.2, s 0.1 for a positive or negative
\* sentiment, h 0.1 for a message of at most 10 characters when b + k + e + s >= 0.6.
C21_ScoreFormula ==
    Scored => score = Max(0, Min(1000, TermB(nlu_result) + TermK(nlu_result) + TermE(nlu_result)
                                        + TermS(nlu_result) + TermH(nlu_result)))

\* the 10-character greeting at confidence 0.8 and a positive sentiment: the floor 0.56
\* alone is below 0.6, the sum 0.66 is not, so the short-message boost gives 0.76
C21_Witness ==
    /\ Scored
    /\ nlu_result.content = Msg_Sawasdee_Krub
    /\ nlu_result.intents /= <<>> /\ top_confidence(nlu_result.intents) = 80
    /\ nlu_result.entities = <<>>
    /\ nlu_result.sentiment = "positive"
    /\ score = 760

----------------------------------------------------------------------------
(* Properties of the strategy cascade of RobustNLUParser *)

\* the records the structured strategy discovers in the output
Discovered == _extract_records(_clean_output(raw_output))

\* how many of them parse into a record of a known kind, each taken alone
ParsedAlone ==
    LET ParsedOf(records) ==
            Cardinality({ i \in DOMAIN records :
                              _parse_single_record(records[i], _init_result_structure).ok })
    IN  ParsedOf(Discovered)

\* at least one record parsed and the parsed ones are at least half of the discovered
AtLeastHalf ==
    LET Half(parsed) == parsed >= 1 /\ 2 * parsed >= Len(Discovered)
    IN  Half(ParsedAlone)

\* the dict as the structured attempt leaves it
AfterStructured == _parse_structured_format(raw_output, _init_result_structure).result

\* C22: the structured strategy is accepted (status success, strategy_used structured)
\* exactly when at least one discovered record parsed and the parsed records are at
\* least half of the discovered ones; otherwise the regex fallback runs next, and is the
\* strategy reported when it finds content.
C22_AcceptedAtHalf ==
    LET Decided(half) ==
            /\ RecordAccepted(result) <=> half
            /\ (~half /\ _parse_with_regex_fallback(raw_output, AfterStructured).ok)
                   => (result.status = "partial_success"
                       /\ result.strategy_used = "regex_fallback")
    IN  pc = "robust" => Decided(AtLeastHalf)

\* one record of three parsed: below one half, the regex fallback is reported
C22_Witness ==
    /\ pc = "robust"
    /\ raw_output = Join(<<R_greet, R_foo, R_foo>>, record_delimiter)
    /\ Len(Discovered) = 3 /\ ParsedAlone = 1
    /\ result.status = "partial_success" /\ result.strategy_used = "regex_fallback"

\* the records of a document
RecordsOf(r) == <<r.intents, r.entities, r.languages, r.sentiment>>

\* what the regex fallback extracts from the output by itself
RegexAlone == _parse_with_regex_fallback(raw_output, _init_result_structure)

\* C23 (as stated): the strategies run in order, a strategy is attempted only when every
\* earlier one yielded no usable record, and strategy_used names the strategy that
\* produced the returned records.
C23_OrderedCascade ==
    pc = "robust"
        => /\ result.strategy_used = "regex_fallback"
                  => /\ ParsedAlone = 0
                     /\ RecordsOf(result) = RecordsOf(_finalize_result(RegexAlone.result))
           /\ result.strategy_used = "line_by_line"
                  => (ParsedAlone = 0 /\ ~RegexAlone.ok)

\* an output too short for a record: fewer than 10 characters once cleaned
ShortOutput == Len(Strip(Remove(raw_output, completion_delimiter), Spaces)) < MinLength

\* C24 (as stated): an output shorter than 10 characters after cleaning goes directly to
\* the keyword fallback, so the document holds the keyword intents or general_intent at
\* 0.5 and nothing else.
C24_ShortGoesToKeywords ==
    (Parsed /\ ShortOutput)
        => /\ result.intents /= <<>>
           /\ \A i \in DOMAIN result.intents : result.intents[i].confidence \in {50, 70}
           /\ result.entities = <<>>

\* intents from the most confident to the least
IntentsDescending(r) ==
    \A i, j \in DOMAIN r.intents : i < j => r.intents[i].confidence >= r.intents[j].confidence

\* primary languages first, then by descending confidence
LanguagesOrdered(r) ==
    \A i, j \in DOMAIN r.languages :
        i < j => \/ (r.languages[i].is_primary /\ ~r.languages[j].is_primary)
                 \/ (r.languages[i].is_primary = r.languages[j].is_primary
                     /\ r.languages[i].confidence >= r.languages[j].confidence)

\* C25 (as stated): in every document a parser returns, intents are in descending order
\* of confidence and languages have the primary ones first, then descending confidence.
C25_Ordered ==
    Parsed => (IntentsDescending(result) /\ LanguagesOrdered(result))

\* the documents of the two parser classes are ordered
C25_ParserClassesOrdered ==
    pc \in {"robust", "pyparsing"} => (IntentsDescending(result) /\ LanguagesOrdered(result))

\* the elements of a list of a document
ListRange(r, key) ==
    IF key = "intents" THEN Range(r.intents)
    ELSE IF key = "entities" THEN Range(r.entities)
    ELSE Range(r.languages)

\* C29 (as stated): when the structured attempt is not accepted, the records it extracted
\* are absent from the returned intents, entities, languages and sentiment.
C29_RejectedContributesNothing ==
    (pc = "robust" /\ ~AtLeastHalf)
        => /\ \A key \in {"intents", "entities", "languages"} :
                  ListRange(AfterStructured, key) \cap ListRange(result, key) = {}
           /\ AfterStructured.sentiment.present => result.sentiment /= AfterStructured.sentiment

----------------------------------------------------------------------------
(* Properties of the session under interleaving *)

\* both operations have returned, and reported success
BothSucceeded == \A p \in DOMAIN procs : procs[p].pc = "done" /\ procs[p].success = "true"

\* C30 (as stated): when two operations that append to the same session run concurrently
\* and both report success, the stored conversation holds both messages; and a session
\* that exists and has not expired is never seen as invalid during another save.
C30_NoLostMessage ==
    pc = "session"
        => /\ BothSucceeded => \A p \in DOMAIN procs : procs[p].message \in Range(redis.data)
           /\ \A p \in DOMAIN procs : ~procs[p].seen_invalid

\* one operation alone keeps its message: the loss needs the interleaving
C30_LastWriterKept ==
    (pc = "session" /\ BothSucceeded)
        => \E p \in DOMAIN procs : procs[p].message \in Range(redis.data)


----------------------------------------------------------------------------
(* The workflow of a turn *)

\* a turn is over: add_assistant_response has been called
TurnOver == pc = "process_user_message" /\ steps # <<>>

\* the steps of a turn, with and without the conditional one
RoutedTurn ==
    <<"process_user_message", "analyze_message_nlu", "should_save_to_longterm",
      "determine_required_contexts", "generate_response", "add_assistant_response">>
RoutedTurnPersisted ==
    <<"process_user_message", "analyze_message_nlu", "should_save_to_longterm",
      "add_nlu_analysis", "determine_required_contexts", "generate_response",
      "add_assistant_response">>

\* C26: a turn that ends with a generated response has loaded or created the session,
\* analyzed the message, scored it, persisted the analysis if it was important, routed
\* the context from the analysis, generated the response with the routed selection
\* and appended the response, in this order
C26_StepsInOrder ==
    LET Listed(call) == call \in Range(RoutedTurnPersisted)
    IN  TurnOver /\ response = Generated =>
            /\ SelectSeq(steps, Listed) \in {RoutedTurn, RoutedTurnPersisted}
            /\ context_selection \notin {"not_given", "None"}

\* what the code does on a turn that ends with a generated response: nothing is routed,
\* nothing was persisted, and generate_response gets no context_selection
C26_StepsWithoutRouting ==
    TurnOver /\ response = Generated =>
        /\ steps \in { <<"process_user_message", "lm.load", "analyze_message_nlu",
                         "should_save_to_longterm", "generate_response",
                         "add_assistant_response">>,
                       <<"process_user_message", "lm.load", "analyze_message_nlu",
                         "generate_response", "add_assistant_response">> }
        /\ context_selection = "None"
        /\ saved # "true"

\* C27: the long-term context of the response is what self.lm.load returned before the
\* analysis, it holds no analysis of the message of the turn, and analyze_message_nlu
\* gets the messages right before the message of the turn, five at most, and never
\* that message
C27_SnapshotAndContext ==
    LET Before(a, b) ==
            \E i, j \in DOMAIN steps : i < j /\ steps[i] = a /\ steps[j] = b
        Preceding(n) ==
            context_messages = Slice(conversation, Len(conversation) - n, Len(conversation) - 1)
    IN  /\ "generate_response" \in Range(steps) =>
              /\ Before("lm.load", "analyze_message_nlu")
              /\ Before("analyze_message_nlu", "generate_response")
              /\ \A a \in Range(lm_context) : a.message # user_message
              /\ \A i \in DOMAIN lm_context : i <= Len(lm) /\ lm_context[i] = lm[i]
        /\ "analyze_message_nlu" \in Range(steps) =>
              /\ Len(context_messages) <= 5
              /\ user_message \notin Range(context_messages)
              /\ Preceding(IF Len(conversation) > 5 THEN 5 ELSE Len(conversation) - 1)

\* a response was generated for the eighth message of a session, with a long-term
\* memory that holds an earlier analysis: the context is the five messages before it
C27_Witness ==
    /\ generation = "returned"
    /\ nlu_result.present
    /\ Len(conversation) = 8
    /\ user_message = 8
    /\ context_messages = <<3, 4, 5, 6, 7>>
    /\ lm_context # <<>>


----------------------------------------------------------------------------
(* Monotonicity of the score *)

\* the signals of each message: whether it has at most 10 characters, how many
\* business keywords are in it, and which entity values are
ContentSignals ==
    [m \in Contents |->
        [short |-> ShortMessage([content |-> m]),
         keywords |-> Cardinality({ w \in Range(business_keywords) : AppearsIn(w, m) }),
         values |-> { v \in EntityValues : AppearsIn(v, m) }]]
EntitiesIn(entities, m) ==
    Cardinality({ i \in DOMAIN entities : entities[i].value \in ContentSignals[m].values })

\* the analyses that differ from doc by one strengthened signal: an intent more, the
\* confidence of an intent raised, an entity more, the sentiment set to positive or
\* negative, or a message of the same length class (at most 10 characters or more)
\* with at least as many business keywords and valid entities
Strengthened(doc) ==
    { [doc EXCEPT !.intents = Append(@, i)] : i \in ScoreIntent }
    \cup { [doc EXCEPT !.intents[k[1]].confidence = k[2]] :
               k \in { q \in (DOMAIN doc.intents) \X {20, 80, 90, 100} :
                           q[2] > doc.intents[q[1]].confidence } }
    \cup { [doc EXCEPT !.entities = Append(@, e)] : e \in NLUEntity }
    \cup { [doc EXCEPT !.sentiment = t] :
               t \in IF doc.sentiment \in {"positive", "negative"}
                         THEN {} ELSE {"positive", "negative"} }
    \cup { [doc EXCEPT !.content = c] :
               c \in { m \in Contents \ {doc.content} :
                           /\ ContentSignals[m].short = ContentSignals[doc.content].short
                           /\ ContentSignals[m].keywords >= ContentSignals[doc.content].keywords
                           /\ EntitiesIn(doc.entities, m)
                                  >= EntitiesIn(doc.entities, doc.content) } }

\* C28: strengthening a signal of an analysis (a higher or a further intent
\* confidence, a further business keyword in a message of the same length class, a
\* further entity, a positive or negative sentiment) never lowers its score, and an
\* analysis that reaches a threshold still reaches it afterwards
C28_Monotone ==
    LET NotLower(s) == s >= score /\ \A th \in Thresholds : score >= th => s >= th
    IN  Scored => \A e \in Strengthened(nlu_result) : NotLower(importance_score(e))

\* the greeting at confidence 0.9 scores 0.73 with the short-message boost; with a
\* positive sentiment it scores 0.83, and with the confidence raised to 1.0 it scores 0.8
C28_Witness ==
    /\ Scored
    /\ nlu_result.content = Msg_Sawasdee
    /\ nlu_result.intents = <<[name |-> "greet", confidence |-> 90]>>
    /\ nlu_result.entities = <<>>
    /\ nlu_result.sentiment = "none"
    /\ score = 730
    /\ [nlu_result EXCEPT !.sentiment = "positive"] \in Strengthened(nlu_result)
    /\ importance_score([nlu_result EXCEPT !.sentiment = "positive"]) = 830
    /\ [nlu_result EXCEPT !.intents[1].confidence = 100] \in Strengthened(nlu_result)
    /\ importance_score([nlu_result EXCEPT !.intents[1].confidence = 100]) = 800
    /\ \E e \in Strengthened(nlu_result) :
          e.content /= nlu_result.content /\ importance_score(e) > score

====
